---- MODULE Spec2Model ----
(***************************************************************************)
(* Pair counting of picca (py/picca/co.py): fill_neighs,                   *)
(* fill_neighs_x_correlation, co and fast_co, run by several workers over  *)
(* disjoint chunks of the primary catalog, with the shared progress        *)
(* counter and its lock.                                                   *)
(*                                                                         *)
(* Numbers.  Distances (r_comov, rdm_comov, rp, rt, rp_min, rp_max,        *)
(* rt_max) are fixed-point integers in units of 1/Unit.  Angles are        *)
(* multiples of 30 degrees on the great circle dec = 0, so the separation  *)
(* of two objects is the difference of their positions; cos and sin of the *)
(* half angle are tables in units of 1/Unit.  Redshifts are integers and   *)
(* the pair redshift (z1+z2)/2 is kept doubled.  Means (sum / weight) are  *)
(* reduced fractions <<numerator, denominator>>.                           *)
(***************************************************************************)
EXTENDS Integers, Sequences, FiniteSets, TLC

VARIABLES
    cfg,        \* the module globals of co.py set by the driver (co.py 10-22)
    obj,        \* the Qso objects: index -> fields
    objs,       \* primary catalog: cell id -> list of object indices
    objs2,      \* secondary catalog (cross runs): cell id -> list of object indices
    neighs,     \* o1.neighs of every object
    pix,        \* worker -> its chunk, a list of cell ids
    pc,         \* worker -> position in fill_neighs / co
    pos,        \* worker -> index of the current object of its chunk
    acc,        \* worker -> the arrays we, rp, rt, z, nb of co
    ret,        \* worker -> the tuple co returned
    counter,    \* counter.value
    lock,       \* owner of the lock, or NoOwner
    tmp,        \* worker -> the value read by counter.value += 1
    merged,     \* the coordinator's merged grid
    mergedFrom, \* the workers whose grid has been merged
    kin,        \* arguments of a direct call of fast_co
    kout        \* what that call computed

vars == <<cfg, obj, objs, objs2, neighs, pix, pc, pos, acc, ret, counter, lock,
          tmp, merged, mergedFrom, kin, kout>>

runVars == <<cfg, obj, objs, objs2, neighs, pix, pc, pos, acc, ret, counter, lock,
             tmp, merged, mergedFrom>>

-----------------------------------------------------------------------------
(* Bounds of the model *)

NWorkers == 2

SigBits == 12

-----------------------------------------------------------------------------
(* Arithmetic *)

Abs(x) == IF x < 0 THEN -x ELSE x

Max(a, b) == IF a < b THEN b ELSE a

SetMax(S) == CHOOSE x \in S : \A y \in S : y <= x

RECURSIVE GCD(_, _)
GCD(a, b) == IF b = 0 THEN a ELSE GCD(b, a % b)

\* f[lo] + ... + f[hi]
RECURSIVE SumRange(_, _, _)
SumRange(f, lo, hi) ==
    IF lo > hi THEN 0
    ELSE IF lo = hi THEN f[lo]
    ELSE LET mid == (lo + hi) \div 2
         IN  SumRange(f, lo, mid) + SumRange(f, mid + 1, hi)

SumSeq(s) == SumRange(s, 1, Len(s))

RECURSIVE Pow2(_)
Pow2(n) == IF n = 0 THEN 1 ELSE 2 * Pow2(n - 1)

\* round n/d (d > 0) to the nearest integer, ties to even
RoundDiv(n, d) ==
    LET q == n \div d
        r == n - q * d
    IN  IF 2 * r < d THEN q
        ELSE IF 2 * r > d THEN q + 1
        ELSE IF q % 2 = 0 THEN q ELSE q + 1

\* numpy astype(int) of the quotient n/d (d > 0): truncation toward zero
TruncDiv(n, d) == IF n >= 0 THEN n \div d ELSE -((-n) \div d)

RECURSIVE Spacing(_, _)
Spacing(n, s) == IF n < Pow2(SigBits) * s THEN s ELSE Spacing(n, 2 * s)

\* A floating-point result: the exact value n rounded to a significand of
\* SigBits bits, round to nearest, ties to even (float64 has 53 bits).
Fl(n) ==
    LET s == Spacing(Abs(n), 1)
        m == RoundDiv(Abs(n), s) * s
    IN  IF n < 0 THEN -m ELSE m

\* a reduced fraction n/d
Frac(n, d) ==
    LET g == GCD(Abs(n), Abs(d))
    IN  IF d = 0 \/ g = 0 THEN <<n, 1>>
        ELSE IF d < 0 THEN <<(-n) \div g, (-d) \div g>> ELSE <<n \div g, d \div g>>

FracAdd(a, b) == Frac(a[1] * b[2] + b[1] * a[2], a[2] * b[2])

-----------------------------------------------------------------------------
(* Trigonometry on the 30 degree grid, in units of 1/Unit *)

\* sp.cos(ang/2) for ang = 0, 30, ..., 180 degrees
CosHalf == <<16, 15, 14, 11, 8, 4, 0>>

\* sp.sin(ang/2) for ang = 0, 30, ..., 180 degrees
SinHalf == <<0, 4, 8, 11, 14, 15, 16>>

Unit == CosHalf[1]

Cos2(ang) == CosHalf[ang + 1]

Sin2(ang) == SinHalf[ang + 1]

-----------------------------------------------------------------------------
(* Qso.__xor__ and healpy.query_disc *)

\* width of a HEALPix cell, in 30 degree steps (set by nside)
CellWidth == 2

\* o1^data for a list: arccos of the dot product of the unit vectors; on the
\* great circle dec = 0 this is the difference of the right ascensions
\* (cos = 1 is clamped to 1 and gives 0, as does the flat-sky formula).
Xor(O, o1, data) == [i \in 1..Len(data) |-> Abs(O[data[i]].pos - O[o1].pos)]

\* the ascending list of the elements of a finite set of integers
RECURSIVE SortedSeq(_)
SortedSeq(S) ==
    IF S = {} THEN <<>>
    ELSE LET m == CHOOSE x \in S : \A y \in S : x <= y
         IN  <<m>> \o SortedSeq(S \ {m})

\* query_disc(nside, vec, radius, inclusive=True): every cell that overlaps
\* the disc of the given radius around the position
QueryDisc(p, radius) ==
    SortedSeq({c \in 0..((p + radius) \div CellWidth) :
                  c * CellWidth + (CellWidth - 1) >= p - radius})

\* [o2 for p in npix for o2 in cat[p]]
RECURSIVE FlatCells(_, _)
FlatCells(cat, cells) ==
    IF cells = <<>> THEN <<>>
    ELSE cat[Head(cells)] \o FlatCells(cat, Tail(cells))

-----------------------------------------------------------------------------
(* fill_neighs / fill_neighs_x_correlation, for one object o1 *)

\* variant: a candidate is excluded only when it is the very same object
NotSelf_SameObject(O, o1, o2) == o1 /= o2

\* the test of the comprehension of line 32 / 44
NotSelf(O, o1, o2) == O[o1].thingid /= O[o2].thingid

\* variant: the angular cut accepts a separation equal to angmax
AngCut_Inclusive(c, a) == a <= c.angmax

\* w = ang < angmax (line 34 / 46)
AngCut(c, a) == a < c.angmax

\* variant: the redshift window is open at its lower end
ZCut_OpenBelow(c, zsum) == zsum > 2 * c.z_cut_min /\ zsum < 2 * c.z_cut_max

\* the test of the comprehension of line 36 / 48; the mean is kept doubled
ZCut(c, zsum) == zsum >= 2 * c.z_cut_min /\ zsum < 2 * c.z_cut_max

\* lines 30-36 (cat = objs) and 42-48 (cat = objs2): the value stored in o1.neighs
NeighsOf(c, O, cat, o1) ==
    LET InCat(p)  == p \in DOMAIN cat
        npix      == SelectSeq(QueryDisc(O[o1].pos, c.angmax), InCat)
        Other(o2) == NotSelf(O, o1, o2)
        cand      == SelectSeq(FlatCells(cat, npix), Other)
        ang       == Xor(O, o1, cand)
        kept      == {i \in 1..Len(cand) : AngCut(c, ang[i])}
        near      == [k \in 1..Cardinality(kept) |-> cand[SortedSeq(kept)[k]]]
        InZ(o2)   == ZCut(c, O[o2].z_qso + O[o1].z_qso)
    IN  SelectSeq(near, InZ)

\* the catalog the neighbours are taken from
Target(c, A, B) == IF c.x_correlation THEN B ELSE A

-----------------------------------------------------------------------------
(* fast_co *)

ArrLen(a) == Cardinality(DOMAIN a)

Zeros(n) == [b \in 0..(n - 1) |-> 0]

\* sp.bincount(bins, weights): one entry per value 0..max(bins)
Bincount(bins, wts) ==
    IF bins = <<>> THEN Zeros(0)
    ELSE [b \in 0..SetMax({bins[i] : i \in 1..Len(bins)}) |->
             SumSeq([i \in 1..Len(bins) |-> IF bins[i] = b THEN wts[i] ELSE 0])]

\* variant: rp is folded only in a same-catalog run
SignRule_AutoOnly(c, rp) == IF ~c.x_correlation THEN Abs(rp) ELSE rp

\* variant: rp is folded in every run
SignRule_Always(c, rp) == Abs(rp)

\* lines 90-92: the parallel separation and its sign rule
SignRule(c, rp) ==
    IF ~c.x_correlation \/ c.type_corr \in {"DR", "RD"} THEN Abs(rp) ELSE rp

PairRp(c, r1, r2, a) == SignRule(c, RoundDiv((r1 - r2) * Cos2(a), Unit))

\* line 93
PairRt(rdm1, rdm2, a) == RoundDiv((rdm1 + rdm2) * Sin2(a), Unit)

\* variant: the selection does not look at the weight
Mask_NoWeight(c, rp, rt, w12) ==
    rp >= c.rp_min /\ rp < c.rp_max /\ rt < c.rt_max

\* variant: the selection accepts rp equal to rp_max
Mask_ClosedAbove(c, rp, rt, w12) ==
    rp >= c.rp_min /\ rp <= c.rp_max /\ rt < c.rt_max /\ w12 > 0

\* line 97: the selection mask of one pair
Mask(c, rp, rt, w12) ==
    rp >= c.rp_min /\ rp < c.rp_max /\ rt < c.rt_max /\ w12 > 0

\* line 103: sp.floor((rp-rp_min)/(rp_max-rp_min)*npb); the two differences
\* are floating-point results
BinParallel(c, rp) == (Fl(rp - c.rp_min) * c.npb) \div Fl(c.rp_max - c.rp_min)

\* line 104: (rt/rt_max*ntb).astype(int)
BinTransverse(c, rt) == TruncDiv(rt * c.ntb, c.rt_max)

\* line 105
FlatBin(c, bp, bt) == bt + c.ntb * bp

FastCo(c, z1, r1, rdm1, w1, z2, r2, rdm2, w2, ang) ==
    LET n      == Len(ang)
        rp     == [i \in 1..n |-> PairRp(c, r1, r2[i], ang[i])]
        rt     == [i \in 1..n |-> PairRt(rdm1, rdm2[i], ang[i])]
        z      == [i \in 1..n |-> z1 + z2[i]]
        w12    == [i \in 1..n |-> w1 * w2[i]]
        w      == [i \in 1..n |-> Mask(c, rp[i], rt[i], w12[i])]
        sel    == SortedSeq({i \in 1..n : w[i]})
        m      == Len(sel)
        bp     == [k \in 1..m |-> BinParallel(c, rp[sel[k]])]
        bt     == [k \in 1..m |-> BinTransverse(c, rt[sel[k]])]
        bins   == [k \in 1..m |-> FlatBin(c, bp[k], bt[k])]
        bad    == \E k \in 1..m : bins[k] < 0
        use    == IF bad THEN <<>> ELSE bins
    IN  [rp  |-> rp, rt |-> rt, z |-> z, w12 |-> w12, w |-> w,
         bp  |-> bp, bt |-> bt, bins |-> bins,
         err |-> bad,
         cw  |-> Bincount(use, [k \in 1..m |-> w12[sel[k]]]),
         crp |-> Bincount(use, [k \in 1..m |-> rp[sel[k]] * w12[sel[k]]]),
         crt |-> Bincount(use, [k \in 1..m |-> rt[sel[k]] * w12[sel[k]]]),
         cz  |-> Bincount(use, [k \in 1..m |-> z[sel[k]] * w12[sel[k]]]),
         cnb |-> Bincount(use, [k \in 1..m |-> 1])]

-----------------------------------------------------------------------------
(* co *)

\* lines 52-56
ZeroAcc(c) ==
    [we |-> Zeros(c.npb * c.ntb), rp |-> Zeros(c.npb * c.ntb),
     rt |-> Zeros(c.npb * c.ntb), z  |-> Zeros(c.npb * c.ntb),
     nb |-> Zeros(c.npb * c.ntb)]

\* variant: the partial array replaces the head of the accumulator
AddPrefix_Assign(a, part) ==
    [b \in DOMAIN a |-> IF b \in DOMAIN part THEN part[b] ELSE a[b]]

\* a[:len(part)] += part
AddPrefix(a, part) ==
    [b \in DOMAIN a |-> IF b \in DOMAIN part THEN a[b] + part[b] ELSE a[b]]

\* lines 67-73: the call of fast_co for o1 and its neighbour list
CallFastCo(c, O, o1, nl) ==
    FastCo(c, O[o1].z_qso, O[o1].r_comov, O[o1].rdm_comov, O[o1].we,
           [i \in 1..Len(nl) |-> O[nl[i]].z_qso],
           [i \in 1..Len(nl) |-> O[nl[i]].r_comov],
           [i \in 1..Len(nl) |-> O[nl[i]].rdm_comov],
           [i \in 1..Len(nl) |-> O[nl[i]].we],
           Xor(O, o1, nl))

\* whether lines 73-79 raise: bincount of a negative bin, or a partial array
\* longer than the accumulators
CoRaises(a, f) == f.err \/ ArrLen(f.cw) > ArrLen(a.we)

\* lines 75-79
CoAdd(a, f) ==
    [we |-> AddPrefix(a.we, f.cw), rp |-> AddPrefix(a.rp, f.crp),
     rt |-> AddPrefix(a.rt, f.crt), z  |-> AddPrefix(a.z, f.cz),
     nb |-> AddPrefix(a.nb, f.cnb)]

\* variant: the sums are divided by the raw count
Normalise_ByCount(a) ==
    LET Mean(s) == [b \in DOMAIN s |->
                       IF a.we[b] > 0 THEN Frac(s[b], a.nb[b]) ELSE Frac(s[b], 1)]
    IN  [we |-> a.we, rp |-> Mean(a.rp), rt |-> Mean(a.rt), z |-> Mean(a.z),
         nb |-> a.nb]

\* lines 82-86: the returned tuple; the means are fractions
Normalise(a) ==
    LET Mean(s) == [b \in DOMAIN s |->
                       IF a.we[b] > 0 THEN Frac(s[b], a.we[b]) ELSE Frac(s[b], 1)]
    IN  [we |-> a.we, rp |-> Mean(a.rp), rt |-> Mean(a.rt), z |-> Mean(a.z),
         nb |-> a.nb]

\* lines 58-80 over a list of objects, neighbour lists as fill_neighs stores them
RECURSIVE CoLoop(_, _, _, _, _)
CoLoop(c, O, cat, list, a) ==
    IF list = <<>> THEN a
    ELSE LET nl == NeighsOf(c, O, cat, Head(list))
             a2 == IF nl = <<>> THEN a ELSE CoAdd(a, CallFastCo(c, O, Head(list), nl))
         IN  CoLoop(c, O, cat, Tail(list), a2)

\* fill_neighs(pix) then co(pix) in one process
CoRun(c, O, A, B, cells) ==
    Normalise(CoLoop(c, O, Target(c, A, B), FlatCells(A, cells), ZeroAcc(c)))

-----------------------------------------------------------------------------
(* The globals the driver sets (co.py 10-22), distances in units of 1/Unit *)

\* auto-correlation of one catalog
CfgAuto ==
    [npb |-> 2, ntb |-> 2, rp_min |-> 0, rp_max |-> 4 * Unit, rt_max |-> 4 * Unit,
     angmax |-> 2, z_cut_min |-> 2, z_cut_max |-> 3,
     x_correlation |-> FALSE, type_corr |-> "DD"]

\* cross-correlation of two tracers: signed rp
CfgCross ==
    [npb |-> 2, ntb |-> 2, rp_min |-> -4 * Unit, rp_max |-> 4 * Unit,
     rt_max |-> 4 * Unit, angmax |-> 2, z_cut_min |-> 2, z_cut_max |-> 3,
     x_correlation |-> TRUE, type_corr |-> "xDD"]

\* data against randoms
CfgDR ==
    [npb |-> 2, ntb |-> 2, rp_min |-> 0, rp_max |-> 4 * Unit, rt_max |-> 4 * Unit,
     angmax |-> 2, z_cut_min |-> 2, z_cut_max |-> 3,
     x_correlation |-> TRUE, type_corr |-> "DR"]

\* the grid of the end-to-end scenario: rp in [-200, 200), rt < 200, 50 x 50 bins
CfgWide ==
    [npb |-> 50, ntb |-> 50, rp_min |-> -200 * Unit, rp_max |-> 200 * Unit,
     rt_max |-> 200 * Unit, angmax |-> 2, z_cut_min |-> 2, z_cut_max |-> 3,
     x_correlation |-> TRUE, type_corr |-> "xDD"]

-----------------------------------------------------------------------------
(* Direct calls of fast_co: the arguments are drawn from bounded sets *)

Workers == 1..NWorkers

NoOwner == 0

KernelFirst ==
    [z : {2}, r : {96, 97, 150, 160, 161, 224, 225}, rdm : {16, 112},
     w : 0..2, ang : 0..2]

KernelSecond ==
    {[z |-> 3, r |-> 150, rdm |-> 16, w |-> 1, ang |-> 1],
     [z |-> 2, r |-> 190, rdm |-> 16, w |-> 2, ang |-> 1]}

KernelArgs ==
    {[c |-> c, z1 |-> 2, r1 |-> 160, rdm1 |-> 16, w1 |-> w1, nb |-> nb] :
        c \in {CfgAuto, CfgCross, CfgDR}, w1 \in 0..1,
        nb \in {<<a>> : a \in KernelFirst}
               \cup {<<a, b>> : a \in KernelFirst, b \in KernelSecond}}
    \cup
    {[c |-> CfgWide, z1 |-> 2, r1 |-> r1, rdm1 |-> 16, w1 |-> 1, nb |-> <<a>>] :
        r1 \in {160, 3360}, a \in KernelFirst}

KernelCall(k) ==
    FastCo(k.c, k.z1, k.r1, k.rdm1, k.w1,
           [i \in 1..Len(k.nb) |-> k.nb[i].z], [i \in 1..Len(k.nb) |-> k.nb[i].r],
           [i \in 1..Len(k.nb) |-> k.nb[i].rdm], [i \in 1..Len(k.nb) |-> k.nb[i].w],
           [i \in 1..Len(k.nb) |-> k.nb[i].ang])

\* no run: no catalog, no chunk, no grid
NoRun(c) ==
    /\ cfg = c
    /\ obj = <<>>
    /\ objs = <<>>
    /\ objs2 = <<>>
    /\ neighs = <<>>
    /\ pix = [w \in Workers |-> <<>>]
    /\ pc = [w \in Workers |-> "idle"]
    /\ pos = [w \in Workers |-> 1]
    /\ acc = [w \in Workers |-> <<>>]
    /\ ret = [w \in Workers |-> <<>>]
    /\ counter = 0
    /\ lock = NoOwner
    /\ tmp = [w \in Workers |-> 0]
    /\ merged = <<>>
    /\ mergedFrom = {}

KernelInit ==
    /\ kin \in KernelArgs
    /\ kout = [stage |-> "args"]
    /\ NoRun(kin.c)

\* cw,crp,crt,cz,cnb = fast_co(...)   (co.py 73, 88-113)
FastCoCall ==
    /\ kout.stage = "args"
    /\ kout' = [stage |-> "called", f |-> KernelCall(kin)]
    /\ UNCHANGED <<kin, runVars>>

\* the five += of co on fresh accumulators (co.py 75-79)
FastCoAdd ==
    /\ kout.stage = "called"
    /\ kout' = IF CoRaises(ZeroAcc(kin.c), kout.f)
               THEN [stage |-> "raised", f |-> kout.f]
               ELSE [stage |-> "added", f |-> kout.f,
                     a |-> CoAdd(ZeroAcc(kin.c), kout.f)]
    /\ UNCHANGED <<kin, runVars>>

KernelNext == FastCoCall \/ FastCoAdd

SpecKernel == KernelInit /\ [][KernelNext]_vars

-----------------------------------------------------------------------------
(* The catalogs of a run *)

Q(tid, p, z, r, rdm, w) ==
    [thingid |-> tid, pos |-> p, z_qso |-> z, r_comov |-> r * Unit,
     rdm_comov |-> rdm * Unit, we |-> w]

\* cell id -> the objects of S in that cell, as the driver builds objs / objs2
BuildCat(O, S) ==
    [c \in {O[i].pos \div CellWidth : i \in S} |->
        SortedSeq({i \in S : O[i].pos \div CellWidth = c})]

\* Four primary objects in three cells (1..4) and three secondary objects
\* (5..7).  Object 3 may lie outside the redshift window or weigh nothing,
\* object 4 has no neighbour, object 5 may carry the thingid of object 2, and
\* objects 1 and 6 sit on the same line of sight 4 units apart.
SkyObjects ==
    {<<Q(1, 0, 2, 10, 3, 1), Q(2, 1, 2, 12, 3, 2), Q(3, 2, z3, 11, 6, w3),
       Q(4, 5, 2, 10, 3, 1),
       Q(t5, 1, 2, 13, 3, 1), Q(6, 0, 2, 6, 3, 1), Q(7, 3, 3, 9, 5, 2)>> :
        z3 \in {2, 4}, w3 \in {0, 1}, t5 \in {2, 5}}

\* the secondary catalog is made of other objects, or holds the primary ones
Scenes ==
    {[O |-> O, A |-> 1..4, B |-> B] : O \in SkyObjects, B \in {5..7, 1..4}}

\* the end-to-end scenario: two objects half of angmax apart, r_comov
\* differing by 10, both inside the redshift window
PairObjects ==
    {<<Q(1, 1, 2, 30, 20, w1), Q(2, 2, 2, 20, 10, 3)>> : w1 \in 1..2}

PairScenes ==
    {[O |-> O, A |-> A, B |-> {1, 2} \ A] : O \in PairObjects, A \in {{1}, {1, 2}}}

CfgWideAuto ==
    [CfgWide EXCEPT !.x_correlation = FALSE, !.type_corr = "DD"]

\* the runs: globals and catalogs
Runs ==
    {[c |-> c, s |-> s] : c \in {CfgAuto, CfgCross, CfgDR}, s \in Scenes}

\* the runs of the end-to-end scenario, same-catalog and cross
PairRuns ==
    {[c |-> CfgWide, s |-> s] : s \in {t \in PairScenes : t.B /= {}}}
    \cup {[c |-> CfgWideAuto, s |-> s] : s \in {t \in PairScenes : t.B = {}}}

\* the groupings of n cells into chunks, the chunks numbered in the order of
\* their first cell
Groupings(n) ==
    {g \in [1..n -> Workers] :
        /\ g[1] = 1
        /\ \A i \in 2..n : \E j \in 1..(i - 1) : g[i] <= g[j] + 1}

Unset == [st |-> "unset", l |-> <<>>]

None == [st |-> "None", l |-> <<>>]

List(l) == [st |-> "list", l |-> l]

\* the state when the workers start on the chunks of grouping g
Start(run, g) ==
    LET A     == BuildCat(run.s.O, run.s.A)
        cells == SortedSeq(DOMAIN A)
    IN  /\ cfg = run.c
        /\ obj = run.s.O
        /\ objs = A
        /\ objs2 = IF run.c.x_correlation THEN BuildCat(run.s.O, run.s.B) ELSE <<>>
        /\ neighs = [o \in DOMAIN run.s.O |-> Unset]
        /\ pix = [w \in Workers |->
                     SortedSeq({cells[i] : i \in {j \in 1..Len(cells) : g[j] = w}})]
        /\ pc = [w \in Workers |-> "fill"]
        /\ pos = [w \in Workers |-> 1]
        /\ acc = [w \in Workers |-> <<>>]
        /\ ret = [w \in Workers |-> <<>>]
        /\ counter = 0
        /\ lock = NoOwner
        /\ tmp = [w \in Workers |-> 0]
        /\ merged = Normalise(ZeroAcc(run.c))
        /\ mergedFrom = {}
        /\ kin = <<>>
        /\ kout = <<>>

NCells(run) == Cardinality(DOMAIN BuildCat(run.s.O, run.s.A))

Init == \E run \in Runs : \E g \in Groupings(NCells(run)) : Start(run, g)

PairInit == \E run \in PairRuns : \E g \in Groupings(NCells(run)) : Start(run, g)

-----------------------------------------------------------------------------
(* The workers *)

\* the objects a worker loops over: for ipix in pix: for o1 in objs[ipix]
ObjList(w) == FlatCells(objs, pix[w])

Cur(w) == ObjList(w)[pos[w]]

\* fill_neighs(pix) or fill_neighs_x_correlation(pix) for the worker's chunk
FillNeighs(w) ==
    /\ pc[w] = "fill"
    /\ neighs' = [o \in DOMAIN neighs |->
                     IF \E i \in 1..Len(ObjList(w)) : ObjList(w)[i] = o
                     THEN List(NeighsOf(cfg, obj, Target(cfg, objs, objs2), o))
                     ELSE neighs[o]]
    /\ pc' = [pc EXCEPT ![w] = "start"]
    /\ UNCHANGED <<cfg, obj, objs, objs2, pix, pos, acc, ret, counter, lock, tmp,
                   merged, mergedFrom, kin, kout>>

\* co(pix), lines 52-58: the fresh accumulators
CoBegin(w) ==
    /\ pc[w] = "start"
    /\ acc' = [acc EXCEPT ![w] = ZeroAcc(cfg)]
    /\ pos' = [pos EXCEPT ![w] = 1]
    /\ pc' = [pc EXCEPT ![w] = IF ObjList(w) = <<>> THEN "norm" ELSE "lock"]
    /\ UNCHANGED <<cfg, obj, objs, objs2, neighs, pix, ret, counter, lock, tmp,
                   merged, mergedFrom, kin, kout>>

\* variant: the lock never blocks
LockIsFree_Always(l) == TRUE

LockIsFree(l) == l = NoOwner

\* line 62: with lock (enter)
Acquire(w) ==
    /\ pc[w] = "lock"
    /\ LockIsFree(lock)
    /\ lock' = w
    /\ pc' = [pc EXCEPT ![w] = "read"]
    /\ UNCHANGED <<cfg, obj, objs, objs2, neighs, pix, pos, acc, ret, counter, tmp,
                   merged, mergedFrom, kin, kout>>

\* line 63: counter.value += 1, the load
Read(w) ==
    /\ pc[w] = "read"
    /\ tmp' = [tmp EXCEPT ![w] = counter]
    /\ pc' = [pc EXCEPT ![w] = "write"]
    /\ UNCHANGED <<cfg, obj, objs, objs2, neighs, pix, pos, acc, ret, counter, lock,
                   merged, mergedFrom, kin, kout>>

\* line 63: counter.value += 1, the store
Write(w) ==
    /\ pc[w] = "write"
    /\ counter' = tmp[w] + 1
    /\ pc' = [pc EXCEPT ![w] = "unlock"]
    /\ UNCHANGED <<cfg, obj, objs, objs2, neighs, pix, pos, acc, ret, lock, tmp,
                   merged, mergedFrom, kin, kout>>

\* o is in the neighbour list of o1
InNeighs(o, o1) == \E i \in 1..Len(neighs[o1].l) : neighs[o1].l[i] = o

\* the position after the current object: the next object, or line 82
After(w) == IF pos[w] < Len(ObjList(w)) THEN "lock" ELSE "norm"

\* variant: no test of the size of the list, every object is binned
Release_NoSizeTest(w) ==
    /\ pc[w] = "unlock"
    /\ lock' = NoOwner
    /\ IF neighs[Cur(w)].st /= "list"
       THEN pc' = [pc EXCEPT ![w] = "raised"] /\ pos' = pos
       ELSE pc' = [pc EXCEPT ![w] = "bin"] /\ pos' = pos
    /\ UNCHANGED <<cfg, obj, objs, objs2, neighs, pix, acc, ret, counter, tmp,
                   merged, mergedFrom, kin, kout>>

\* line 62 (exit of the with block) and line 65
Release(w) ==
    /\ pc[w] = "unlock"
    /\ lock' = NoOwner
    /\ IF neighs[Cur(w)].st /= "list"
       THEN pc' = [pc EXCEPT ![w] = "raised"] /\ pos' = pos
       ELSE IF neighs[Cur(w)].l = <<>>
       THEN pc' = [pc EXCEPT ![w] = After(w)] /\ pos' = [pos EXCEPT ![w] = @ + 1]
       ELSE pc' = [pc EXCEPT ![w] = "bin"] /\ pos' = pos
    /\ UNCHANGED <<cfg, obj, objs, objs2, neighs, pix, acc, ret, counter, tmp,
                   merged, mergedFrom, kin, kout>>

\* variant: the list of o1 is kept after the binning
Bin_KeepsList(w) ==
    /\ pc[w] = "bin"
    /\ LET f == CallFastCo(cfg, obj, Cur(w), neighs[Cur(w)].l)
       IN  IF CoRaises(acc[w], f)
           THEN /\ pc' = [pc EXCEPT ![w] = "raised"]
                /\ UNCHANGED <<acc, neighs, pos>>
           ELSE /\ acc' = [acc EXCEPT ![w] = CoAdd(@, f)]
                /\ neighs' = neighs
                /\ pos' = [pos EXCEPT ![w] = @ + 1]
                /\ pc' = [pc EXCEPT ![w] = After(w)]
    /\ UNCHANGED <<cfg, obj, objs, objs2, pix, ret, counter, lock, tmp,
                   merged, mergedFrom, kin, kout>>

\* variant: the lists of the neighbours are released together with that of o1
Bin_ClearsNeighbours(w) ==
    /\ pc[w] = "bin"
    /\ LET f == CallFastCo(cfg, obj, Cur(w), neighs[Cur(w)].l)
       IN  IF CoRaises(acc[w], f)
           THEN /\ pc' = [pc EXCEPT ![w] = "raised"]
                /\ UNCHANGED <<acc, neighs, pos>>
           ELSE /\ acc' = [acc EXCEPT ![w] = CoAdd(@, f)]
                /\ neighs' = [o \in DOMAIN neighs |->
                                 IF o = Cur(w) \/ InNeighs(o, Cur(w))
                                 THEN None ELSE neighs[o]]
                /\ pos' = [pos EXCEPT ![w] = @ + 1]
                /\ pc' = [pc EXCEPT ![w] = After(w)]
    /\ UNCHANGED <<cfg, obj, objs, objs2, pix, ret, counter, lock, tmp,
                   merged, mergedFrom, kin, kout>>

\* lines 67-80: fast_co on the neighbours of o1, the five +=, o1.neighs = None
Bin(w) ==
    /\ pc[w] = "bin"
    /\ LET f == CallFastCo(cfg, obj, Cur(w), neighs[Cur(w)].l)
       IN  IF CoRaises(acc[w], f)
           THEN /\ pc' = [pc EXCEPT ![w] = "raised"]
                /\ UNCHANGED <<acc, neighs, pos>>
           ELSE /\ acc' = [acc EXCEPT ![w] = CoAdd(@, f)]
                /\ neighs' = [neighs EXCEPT ![Cur(w)] = None]
                /\ pos' = [pos EXCEPT ![w] = @ + 1]
                /\ pc' = [pc EXCEPT ![w] = After(w)]
    /\ UNCHANGED <<cfg, obj, objs, objs2, pix, ret, counter, lock, tmp,
                   merged, mergedFrom, kin, kout>>

\* lines 82-86: the tuple is returned and the local arrays are gone
Return(w) ==
    /\ pc[w] = "norm"
    /\ ret' = [ret EXCEPT ![w] = Normalise(acc[w])]
    /\ acc' = [acc EXCEPT ![w] = <<>>]
    /\ pc' = [pc EXCEPT ![w] = "done"]
    /\ UNCHANGED <<cfg, obj, objs, objs2, neighs, pix, pos, counter, lock, tmp,
                   merged, mergedFrom, kin, kout>>

-----------------------------------------------------------------------------
(* The coordinator: merges the grids the workers return, by element-wise *)
(* addition, in the order the workers complete                           *)

GridAdd(g, h) ==
    [we |-> [b \in DOMAIN g.we |-> g.we[b] + h.we[b]],
     rp |-> [b \in DOMAIN g.rp |-> FracAdd(g.rp[b], h.rp[b])],
     rt |-> [b \in DOMAIN g.rt |-> FracAdd(g.rt[b], h.rt[b])],
     z  |-> [b \in DOMAIN g.z |-> FracAdd(g.z[b], h.z[b])],
     nb |-> [b \in DOMAIN g.nb |-> g.nb[b] + h.nb[b]]]

Merge(w) ==
    /\ pc[w] = "done"
    /\ w \notin mergedFrom
    /\ merged' = GridAdd(merged, ret[w])
    /\ mergedFrom' = mergedFrom \cup {w}
    /\ UNCHANGED <<cfg, obj, objs, objs2, neighs, pix, pc, pos, acc, ret, counter,
                   lock, tmp, kin, kout>>

Next ==
    \E w \in Workers :
        \/ FillNeighs(w)
        \/ CoBegin(w)
        \/ Acquire(w)
        \/ Read(w)
        \/ Write(w)
        \/ Release(w)
        \/ Bin(w)
        \/ Return(w)
        \/ Merge(w)

Spec == Init /\ [][Next]_vars

SpecPair == PairInit /\ [][Next]_vars

-----------------------------------------------------------------------------
(* Claims about fast_co, checked under SpecKernel *)

SumArr(a) == SumRange(a, 0, ArrLen(a) - 1)

KCalled == kout.stage /= "args"

\* the pairs of the call that the stated mask lets through
KPassing ==
    {i \in 1..Len(kin.nb) :
        /\ kin.c.rp_min <= kout.f.rp[i]
        /\ kout.f.rp[i] < kin.c.rp_max
        /\ kout.f.rt[i] < kin.c.rt_max
        /\ kin.w1 * kin.nb[i].w > 0}

\* C5: a pair is added to the partial arrays only if rp_min <= rp < rp_max,
\* rt < rt_max and w12 > 0: the raw counts add up to the number of such pairs
\* and the weights to their summed w12, so a pair with rp = rp_max or
\* rt = rt_max is in no bin.
C5_MaskedPairsOnly ==
    KCalled =>
        /\ SumArr(kout.f.cnb) = Cardinality(KPassing)
        /\ SumArr(kout.f.cw) =
              SumSeq([i \in 1..Len(kin.nb) |->
                         IF i \in KPassing THEN kin.w1 * kin.nb[i].w ELSE 0])

\* a call with a positive-weight pair at rp = rp_max and another at
\* rt = rt_max, neither of them counted
C5_Witness ==
    /\ KCalled
    /\ Len(kin.nb) = 2
    /\ kin.w1 * kin.nb[1].w > 0
    /\ \/ kout.f.rp[1] = kin.c.rp_max /\ kout.f.rt[1] < kin.c.rt_max
       \/ kout.f.rt[1] = kin.c.rt_max /\ kout.f.rp[1] < kin.c.rp_max
                                      /\ kout.f.rp[1] >= kin.c.rp_min
    /\ 2 \in KPassing
    /\ SumArr(kout.f.cnb) = 1

\* C6: every selected pair has 0 <= bin_parallel < npb and
\* 0 <= bin_transverse < ntb, hence a flat bin below npb*ntb, and the partial
\* arrays of fast_co fit inside the accumulators of co.
C6_BinsInRange ==
    KCalled =>
        /\ \A k \in 1..Len(kout.f.bins) :
              /\ 0 <= kout.f.bp[k] /\ kout.f.bp[k] < kin.c.npb
              /\ 0 <= kout.f.bt[k] /\ kout.f.bt[k] < kin.c.ntb
              /\ 0 <= kout.f.bins[k] /\ kout.f.bins[k] < kin.c.npb * kin.c.ntb
        /\ ArrLen(kout.f.cw) <= kin.c.npb * kin.c.ntb
        /\ kout.stage /= "raised"

\* C7: rp is replaced by |rp| exactly when the run is same-catalog or the
\* kind is DR or RD; otherwise it keeps the sign of (r1 - r2)*cos(ang/2).
C7_SignRule ==
    KCalled =>
        \A i \in 1..Len(kin.nb) :
            LET raw == RoundDiv((kin.r1 - kin.nb[i].r) * CosHalf[kin.nb[i].ang + 1],
                                CosHalf[1])
            IN  kout.f.rp[i] =
                    IF (~kin.c.x_correlation) \/ kin.c.type_corr \in {"DR", "RD"}
                    THEN (IF raw < 0 THEN -raw ELSE raw) ELSE raw

\* a cross run of two tracers keeps a negative rp, and the pair is binned
C7_Witness ==
    /\ KCalled
    /\ kin.c.x_correlation
    /\ kin.c.type_corr \notin {"DR", "RD"}
    /\ \E i \in KPassing : kout.f.rp[i] < 0 /\ kin.r1 < kin.nb[i].r

\* a DR run folds a negative separation
C7_WitnessDR ==
    /\ KCalled
    /\ kin.c.x_correlation
    /\ kin.c.type_corr = "DR"
    /\ \E i \in KPassing : kout.f.rp[i] > 0 /\ kin.r1 < kin.nb[i].r

-----------------------------------------------------------------------------
(* Claims about the runs, checked under Spec *)

AllCells == SortedSeq(DOMAIN objs)

AllDone == \A w \in Workers : pc[w] = "done"

AllMerged == mergedFrom = Workers

\* the objects of a catalog
Members(cat) == UNION {{cat[c][i] : i \in 1..Len(cat[c])} : c \in DOMAIN cat}

\* the catalog fill_neighs searches in this run
TargetCat == IF cfg.x_correlation THEN objs2 ELSE objs

\* the objects of the target catalog in the cells the cone query of o1 returns
Queried(o1) ==
    {o2 \in Members(TargetCat) :
        \E k \in 1..Len(QueryDisc(obj[o1].pos, cfg.angmax)) :
            QueryDisc(obj[o1].pos, cfg.angmax)[k] = obj[o2].pos \div CellWidth}

Sep(o1, o2) == IF obj[o1].pos < obj[o2].pos THEN obj[o2].pos - obj[o1].pos
               ELSE obj[o1].pos - obj[o2].pos

InWindow(o1, o2) ==
    /\ 2 * cfg.z_cut_min <= obj[o1].z_qso + obj[o2].z_qso
    /\ obj[o1].z_qso + obj[o2].z_qso < 2 * cfg.z_cut_max

Filled(o1) == neighs[o1].st = "list"

InList(o2, l) == \E i \in 1..Len(l) : l[i] = o2

\* the element-wise sum of field f of the grids returned by workers 1..w
RECURSIVE IntTotal(_, _, _)
IntTotal(f, b, w) == IF w = 0 THEN 0 ELSE IntTotal(f, b, w - 1) + ret[w][f][b]

RECURSIVE FracTotal(_, _, _)
FracTotal(f, b, w) ==
    IF w = 0 THEN Frac(0, 1) ELSE FracAdd(FracTotal(f, b, w - 1), ret[w][f][b])

\* the element-wise sum of the grids all workers returned
SumOfReturned ==
    [we |-> [b \in DOMAIN ret[1].we |-> IntTotal("we", b, NWorkers)],
     rp |-> [b \in DOMAIN ret[1].rp |-> FracTotal("rp", b, NWorkers)],
     rt |-> [b \in DOMAIN ret[1].rt |-> FracTotal("rt", b, NWorkers)],
     z  |-> [b \in DOMAIN ret[1].z |-> FracTotal("z", b, NWorkers)],
     nb |-> [b \in DOMAIN ret[1].nb |-> IntTotal("nb", b, NWorkers)]]

\* C1: for any grouping of the cells into chunks and any completion order,
\* the element-wise sum of the grids returned by co(chunk) equals, in all five
\* arrays, the grid co returns for all cells at once.
C1_PartitionIndependent ==
    AllDone => SumOfReturned = CoRun(cfg, obj, objs, objs2, AllCells)

\* C2: a candidate of the queried cells that passes the angle and redshift
\* cuts is missing from o1.neighs if and only if it has the thingid of o1;
\* in particular o1 is never in its own list.
C2_SelfExclusion ==
    \A o1 \in DOMAIN neighs :
        Filled(o1) =>
            /\ ~InList(o1, neighs[o1].l)
            /\ \A o2 \in Queried(o1) :
                  (Sep(o1, o2) < cfg.angmax /\ InWindow(o1, o2)) =>
                      (~InList(o2, neighs[o1].l) <=>
                          obj[o2].thingid = obj[o1].thingid)

\* a cross run over two catalogs holding the same objects: the object itself
\* is in a queried cell and is left out, another object is taken
C2_Witness ==
    \E o1 \in DOMAIN neighs :
        /\ Filled(o1)
        /\ cfg.x_correlation
        /\ o1 \in Queried(o1)
        /\ neighs[o1].l /= <<>>

\* a cross run where an object of the other catalog carries the thingid of o1
\* and is left out for it
C2_WitnessSameId ==
    \E o1 \in DOMAIN neighs :
        /\ Filled(o1)
        /\ cfg.x_correlation
        /\ \E o2 \in Queried(o1) :
              /\ o2 /= o1
              /\ obj[o2].thingid = obj[o1].thingid
              /\ Sep(o1, o2) < cfg.angmax
              /\ InWindow(o1, o2)

\* C3: the increments of the shared counter exclude each other, the counter
\* never decreases, and when every worker has returned it equals the number
\* of primary objects, those with an empty neighbour list included.
C3_Counter ==
    /\ [](\A v, w \in Workers :
             (pc[v] \in {"read", "write", "unlock"} /\ pc[w] \in {"read", "write", "unlock"})
                 => v = w)
    /\ [](AllDone => counter = Cardinality(Members(objs)))
    /\ [][counter' >= counter]_vars

\* every worker has returned, two of them had objects to count, and one
\* object had no neighbour
C3_Witness ==
    /\ AllDone
    /\ counter = Cardinality(Members(objs))
    /\ Cardinality({w \in Workers : pix[w] /= <<>>}) >= 2
    /\ \E o \in DOMAIN neighs : neighs[o] = List(<<>>)

\* C4: o1.neighs holds exactly the objects of the target catalog that lie in
\* a queried cell, have another thingid, are closer than angmax (strictly)
\* and have z_cut_min <= mean redshift < z_cut_max, each of them once.
C4_NeighboursExact ==
    \A o1 \in DOMAIN neighs :
        Filled(o1) =>
            /\ {neighs[o1].l[i] : i \in 1..Len(neighs[o1].l)} =
                  {o2 \in Queried(o1) :
                      /\ obj[o2].thingid /= obj[o1].thingid
                      /\ Sep(o1, o2) < cfg.angmax
                      /\ InWindow(o1, o2)}
            /\ \A i, j \in 1..Len(neighs[o1].l) :
                  neighs[o1].l[i] = neighs[o1].l[j] => i = j

\* a filled list with a neighbour at the lower edge of the redshift window,
\* next to a candidate exactly angmax away and one whose mean redshift is
\* z_cut_max, both left out
C4_Witness ==
    /\ \E o1 \in DOMAIN neighs :
          /\ Filled(o1)
          /\ \E o2 \in Queried(o1) :
                /\ InList(o2, neighs[o1].l)
                /\ obj[o1].z_qso + obj[o2].z_qso = 2 * cfg.z_cut_min
          /\ \E o2 \in Queried(o1) :
                /\ obj[o2].thingid /= obj[o1].thingid
                /\ Sep(o1, o2) = cfg.angmax
                /\ InWindow(o1, o2)
    /\ \E o1 \in DOMAIN neighs :
          /\ Filled(o1)
          /\ \E o2 \in Queried(o1) :
                /\ obj[o2].thingid /= obj[o1].thingid
                /\ Sep(o1, o2) < cfg.angmax
                /\ obj[o1].z_qso + obj[o2].z_qso = 2 * cfg.z_cut_max

\* a cross run of two tracers, with signed rp
SignedCross == cfg.x_correlation /\ cfg.type_corr \notin {"DR", "RD"}

\* the neighbour list of o2 in the run with the roles of the catalogs exchanged
RevNeighs(o2) == NeighsOf(cfg, obj, objs, o2)

IndexIn(o, l) == CHOOSE i \in 1..Len(l) : l[i] = o

\* the histogram of the run with the roles of the catalogs exchanged
RevRun == CoRun(cfg, obj, objs2, objs, SortedSeq(DOMAIN objs2))

\* every pair of the forward run is a pair of the reversed run, with the
\* opposite rp and the same rt, redshift and weight, and conversely
PairsMirrored ==
    /\ \A o1 \in DOMAIN neighs :
          Filled(o1) =>
              LET fwd == CallFastCo(cfg, obj, o1, neighs[o1].l)
              IN  \A i \in 1..Len(neighs[o1].l) :
                      LET o2  == neighs[o1].l[i]
                          rl  == RevNeighs(o2)
                          rev == CallFastCo(cfg, obj, o2, rl)
                      IN  /\ InList(o1, rl)
                          /\ rev.rp[IndexIn(o1, rl)] = -fwd.rp[i]
                          /\ rev.rt[IndexIn(o1, rl)] = fwd.rt[i]
                          /\ rev.z[IndexIn(o1, rl)] = fwd.z[i]
                          /\ rev.w12[IndexIn(o1, rl)] = fwd.w12[i]
    /\ \A o2 \in Members(objs2) :
          LET rl == RevNeighs(o2)
          IN  \A j \in 1..Len(rl) : Filled(rl[j]) => InList(o2, neighs[rl[j]].l)

\* weight and raw count of the forward grid are those of the reversed grid
\* with the parallel bins in the opposite order
GridsMirrored ==
    LET rev == RevRun
    IN  \A bp \in 0..(cfg.npb - 1), bt \in 0..(cfg.ntb - 1) :
            /\ IntTotal("we", bt + cfg.ntb * bp, NWorkers)
                   = rev.we[bt + cfg.ntb * (cfg.npb - 1 - bp)]
            /\ IntTotal("nb", bt + cfg.ntb * bp, NWorkers)
                   = rev.nb[bt + cfg.ntb * (cfg.npb - 1 - bp)]

\* some pair of the run has its rp exactly on an edge of a parallel bin
\* (rp_min and rp_max included)
EdgePair ==
    \E o1 \in Members(objs) :
        LET nl == NeighsOf(cfg, obj, objs2, o1)
            f  == CallFastCo(cfg, obj, o1, nl)
        IN  \E i \in 1..Len(nl) :
                /\ f.w12[i] > 0
                /\ f.rt[i] < cfg.rt_max
                /\ ((f.rp[i] - cfg.rp_min) * cfg.npb) % (cfg.rp_max - cfg.rp_min) = 0

AutoCfg == [cfg EXCEPT !.x_correlation = FALSE, !.type_corr = "DD"]

\* a data-against-random run over two catalogs of identical geometry
SameGeometryDR == cfg.x_correlation /\ cfg.type_corr = "DR" /\ objs2 = objs

\* C9: a DR cross run over two catalogs with identical geometry returns, for
\* every chunk, the grid the same-catalog run returns for it, in every bin.
C9_AutoEqualsDR ==
    SameGeometryDR =>
        \A w \in Workers :
            pc[w] = "done" => ret[w] = CoRun(AutoCfg, obj, objs, <<>>, pix[w])

\* a DR run over identical catalogs has returned a grid with a pair whose
\* unfolded rp is negative
C9_Witness ==
    /\ SameGeometryDR
    /\ \E w \in Workers :
          /\ pc[w] = "done"
          /\ \E b \in DOMAIN ret[w].nb : ret[w].nb[b] > 0
          /\ \E i \in 1..Len(ObjList(w)) :
                \E o2 \in Members(objs) :
                    /\ InList(o2, NeighsOf(cfg, obj, objs2, ObjList(w)[i]))
                    /\ obj[ObjList(w)[i]].r_comov < obj[o2].r_comov
                    /\ obj[ObjList(w)[i]].we * obj[o2].we > 0

-----------------------------------------------------------------------------
(* The end-to-end scenario, checked under SpecPair *)

\* in the sum of the returned grids exactly one bin is not empty, with weight
\* w and raw count n
OneBin(w, n) ==
    \E b \in DOMAIN ret[1].we :
        /\ IntTotal("we", b, NWorkers) = w /\ IntTotal("nb", b, NWorkers) = n
        /\ \A d \in DOMAIN ret[1].we :
              d /= b => (IntTotal("we", d, NWorkers) = 0 /\ IntTotal("nb", d, NWorkers) = 0)

\* C10 as stated: the run over the two objects ends with exactly one non-empty
\* bin, of weight w1*w2 and raw count 1.
C10_OnePairOneCount ==
    AllDone => OneBin(obj[1].we * obj[2].we, 1)

\* C10 (amended): a cross run (one object in each catalog) ends with exactly
\* one non-empty bin, of weight w1*w2 and raw count 1; a same-catalog run bins
\* both orderings of the pair and ends with weight 2*w1*w2 and raw count 2.
C10_OnePair ==
    AllDone =>
        IF cfg.x_correlation
        THEN OneBin(obj[1].we * obj[2].we, 1)
        ELSE OneBin(2 * obj[1].we * obj[2].we, 2)

\* the cross run over the two objects has ended, its pair counted
C10_Witness ==
    /\ AllDone
    /\ cfg.x_correlation
    /\ cfg.npb = 50 /\ cfg.ntb = 50
    /\ cfg.rp_min = -200 * Unit /\ cfg.rp_max = 200 * Unit /\ cfg.rt_max = 200 * Unit
    /\ 2 * Sep(1, 2) = cfg.angmax
    /\ obj[1].r_comov - obj[2].r_comov = 10 * Unit
    /\ InWindow(1, 2)
    /\ \E b \in DOMAIN ret[1].nb : IntTotal("nb", b, NWorkers) = 1

-----------------------------------------------------------------------------
(* The normalisation at the end of co *)

\* the fraction q is the quotient s / w (w > 0)
IsQuotient(q, s, w) == q[2] > 0 /\ q[1] * w = s * q[2]

\* worker w returns in this step
Returns(w) == pc[w] = "norm" /\ pc'[w] = "done"

\* C11: when co returns, every bin with weight sum > 0 holds the weighted sums
\* of rp, rt and z divided by the weight sum, and every bin with weight sum 0
\* holds 0 in all five arrays.
C11_WeightedMeans ==
    [][\A w \in Workers :
          Returns(w) =>
              \A b \in DOMAIN acc[w].we :
                  /\ ret'[w].we[b] = acc[w].we[b]
                  /\ ret'[w].nb[b] = acc[w].nb[b]
                  /\ IF acc[w].we[b] > 0
                     THEN /\ IsQuotient(ret'[w].rp[b], acc[w].rp[b], acc[w].we[b])
                          /\ IsQuotient(ret'[w].rt[b], acc[w].rt[b], acc[w].we[b])
                          /\ IsQuotient(ret'[w].z[b], acc[w].z[b], acc[w].we[b])
                     ELSE /\ ret'[w].we[b] = 0 /\ ret'[w].nb[b] = 0
                          /\ ret'[w].rp[b] = <<0, 1>>
                          /\ ret'[w].rt[b] = <<0, 1>>
                          /\ ret'[w].z[b] = <<0, 1>>]_vars

\* a worker has returned a grid with a bin of several pairs whose mean rp is
\* not a whole number of units, next to an empty bin
C11_Witness ==
    \E w \in Workers :
        /\ pc[w] = "done"
        /\ \E b \in DOMAIN ret[w].nb :
              ret[w].nb[b] >= 2 /\ ret[w].we[b] > ret[w].nb[b] /\ ret[w].rp[b][2] > 1
        /\ \E b \in DOMAIN ret[w].nb : ret[w].we[b] = 0

\* C12: the grid a worker returns holds the un-normalised weighted sums of
\* its accumulators (the division by the weight sum is left to the merged
\* grid).
C12_PartialsAreSums ==
    [][\A w \in Workers :
          Returns(w) =>
              \A b \in DOMAIN acc[w].we :
                  /\ ret'[w].we[b] = acc[w].we[b]
                  /\ ret'[w].nb[b] = acc[w].nb[b]
                  /\ ret'[w].rp[b] = Frac(acc[w].rp[b], 1)
                  /\ ret'[w].rt[b] = Frac(acc[w].rt[b], 1)
                  /\ ret'[w].z[b] = Frac(acc[w].z[b], 1)]_vars

-----------------------------------------------------------------------------
(* The bin of a pair, checked under SpecKernel *)

\* k is the floor of n/d (d > 0)
IsFloor(k, n, d) == k * d <= n /\ n < (k + 1) * d

\* C13: every pair that passes the selection mask gets the flat bin
\* bt + ntb*bp with bp = floor((rp - rp_min)/(rp_max - rp_min)*npb) and
\* bt = floor(rt/rt_max*ntb).
C13_BinFormula ==
    KCalled =>
        LET sel == SortedSeq(KPassing)
        IN  /\ Len(kout.f.bins) = Len(sel)
            /\ \A k \in 1..Len(sel) :
                  /\ IsFloor(kout.f.bp[k],
                             (kout.f.rp[sel[k]] - kin.c.rp_min) * kin.c.npb,
                             kin.c.rp_max - kin.c.rp_min)
                  /\ IsFloor(kout.f.bt[k], kout.f.rt[sel[k]] * kin.c.ntb, kin.c.rt_max)
                  /\ kout.f.bins[k] = kout.f.bt[k] + kin.c.ntb * kout.f.bp[k]


-----------------------------------------------------------------------------
(* Neighbour lists during a pass, checked under Spec *)

\* the objects of the chunk of worker w that hold a populated neighbour list
Populated(w) ==
    {o \in {ObjList(w)[i] : i \in 1..Len(ObjList(w))} :
        Filled(o) /\ neighs[o].l /= <<>>}

\* C14: at every moment of a worker's pass at most one object of its chunk
\* holds a populated neighbour list, the object being binned.
C14_OneListAtATime ==
    \A w \in Workers :
        /\ Cardinality(Populated(w)) <= 1
        /\ \A o \in Populated(w) : pc[w] = "bin" /\ o = Cur(w)


-----------------------------------------------------------------------------
(* Objects without neighbours, checked under Spec *)

\* the objects of the chunk of worker w
Chunk(w) == {ObjList(w)[i] : i \in 1..Len(ObjList(w))}

\* worker w is at the size test of line 65 with an object whose list is empty
AtEmpty(w) == pc[w] = "unlock" /\ Filled(Cur(w)) /\ neighs[Cur(w)].l = <<>>

\* C15: an object without surviving neighbour keeps an empty list, and co
\* passes over it without raising and without changing any accumulator.
C15_EmptyListSkipped ==
    /\ [](\A w \in Workers :
             \A o \in Chunk(w) :
                 (pc[w] /= "fill" /\ NeighsOf(cfg, obj, TargetCat, o) = <<>>)
                     => neighs[o] = List(<<>>))
    /\ [][\A w \in Workers :
             (AtEmpty(w) /\ pc'[w] /= pc[w])
                 => /\ pc'[w] \in {"lock", "norm"}
                    /\ pos'[w] = pos[w] + 1
                    /\ acc' = acc
                    /\ neighs' = neighs]_vars

\* a worker has passed over an object with an empty list, with pairs already
\* in its accumulators, and has returned
C15_Witness ==
    \E w \in Workers :
        /\ pc[w] = "done"
        /\ \E i \in 2..Len(ObjList(w)) : neighs[ObjList(w)[i]] = List(<<>>)
        /\ \E b \in DOMAIN ret[w].nb : ret[w].nb[b] > 0


-----------------------------------------------------------------------------
(* Pairs of weight 0, checked under SpecKernel *)

\* the call without its pairs of weight 0
WithoutZeroWeight ==
    LET Weighs(n) == kin.w1 * n.w > 0
    IN  KernelCall([kin EXCEPT !.nb = SelectSeq(kin.nb, Weighs)])

\* C16: a pair with w12 = 0 changes nothing fast_co returns (the raw count
\* included) and raises nothing; when no pair of the call is selected the
\* returned arrays are empty and the accumulators of co stay at zero.
C16_ZeroWeightIgnored ==
    KCalled =>
        /\ LET g == WithoutZeroWeight
           IN  /\ kout.f.cw = g.cw /\ kout.f.crp = g.crp /\ kout.f.crt = g.crt
               /\ kout.f.cz = g.cz /\ kout.f.cnb = g.cnb /\ kout.f.err = g.err
        /\ KPassing = {} =>
              /\ ArrLen(kout.f.cw) = 0 /\ ArrLen(kout.f.cnb) = 0
              /\ ~kout.f.err
              /\ kout.stage /= "raised"
              /\ kout.stage = "added" => kout.a = ZeroAcc(kin.c)

\* a call with a pair of weight 0 inside the separation ranges next to a
\* selected pair, added to the accumulators
C16_Witness ==
    /\ kout.stage = "added"
    /\ Len(kin.nb) = 2
    /\ kin.w1 > 0 /\ kin.nb[1].w = 0
    /\ kin.c.rp_min <= kout.f.rp[1] /\ kout.f.rp[1] < kin.c.rp_max
    /\ kout.f.rt[1] < kin.c.rt_max
    /\ KPassing = {2}
    /\ SumArr(kout.a.nb) = 1


-----------------------------------------------------------------------------
(* What a pass writes, checked under Spec *)

\* worker w is writing the neighbour list of o: fill_neighs over its chunk, or
\* co binning o
WritesListOf(w, o) ==
    /\ \E i \in 1..Len(ObjList(w)) : ObjList(w)[i] = o
    /\ \/ pc[w] = "fill"
       \/ pc[w] = "bin" /\ ObjList(w)[pos[w]] = o

\* C17: no step of fill_neighs, fill_neighs_x_correlation or co changes the
\* globals, a catalog or a field of an object; a neighbour list changes only
\* when it is that of the primary object a worker is processing; the counter
\* never changes together with it.
C17_CatalogsReadOnly ==
    [][/\ cfg' = cfg /\ obj' = obj /\ objs' = objs /\ objs2' = objs2
       /\ \A o \in DOMAIN neighs :
             neighs'[o] /= neighs[o] =>
                 /\ \E w \in Workers : WritesListOf(w, o) /\ pc'[w] /= pc[w]
                 /\ counter' = counter]_vars

\* a cross run has ended: lists were stored and released, the counter counted
C17_Witness ==
    /\ cfg.x_correlation
    /\ AllDone
    /\ counter > 1
    /\ \E o \in Members(objs) : neighs[o] = None
    /\ \E o \in Members(objs) : neighs[o] = List(<<>>)
    /\ \A o \in Members(objs2) \ Members(objs) : neighs[o] = Unset


-----------------------------------------------------------------------------
(* Qso.__xor__ (data.py 75-131): the angular separation between one object *)
(* and a list of objects, or one object.  Angles are whole numbers of a    *)
(* small unit; an eighth of a turn is Eighth units.  Cartesian components  *)
(* are kept to 1/Comp, so that the products of data.py 66-68 and the dot   *)
(* product of line 95 are rounded and cos can leave [-1, 1].               *)

\* the longest list passed to __xor__
MaxBatch == 2

\* an eighth of a turn, and pi
Eighth == 1000

PiAngle == 4 * Eighth

\* the unit of the cartesian components
Comp == 7

\* Comp*cos and Comp*sin at 0, 45, ..., 315 degrees, rounded
Cos8 == <<7, 5, 0, -5, -7, -5, 0, 5>>

Sin8 == <<0, 5, 7, 5, 0, -5, -7, -5>>

\* sp.cos and sp.sin of an angle: the offset from the nearest eighth of a turn
\* is below the precision of the components
CosOf(a) == Cos8[(RoundDiv(a, Eighth) % 8) + 1]

SinOf(a) == Sin8[(RoundDiv(a, Eighth) % 8) + 1]

\* Qso.__init__ (data.py 56-72)
Qso(ra, dec) ==
    [ra |-> ra, dec |-> dec,
     x_cart  |-> RoundDiv(CosOf(ra) * CosOf(dec), Comp),
     y_cart  |-> RoundDiv(SinOf(ra) * CosOf(dec), Comp),
     z_cart  |-> SinOf(dec),
     cos_dec |-> CosOf(dec)]

\* the value 1. of cos, in the unit of the dot product
CosOne == Comp * Comp

\* line 95 / 119
Dot(self, d) == d.x_cart * self.x_cart + d.y_cart * self.y_cart + d.z_cart * self.z_cart

\* line 96 / 120: cos >= 1.
IsHigh(cos) == cos >= CosOne

\* variant: the low side is not clamped
IsLow_Never(cos) == FALSE

\* line 100 / 123: cos <= -1.
IsLow(cos) == cos <= -CosOne

\* CosOne*cos at 0, 11.25, ..., 180 degrees, rounded
CosSixteenth == <<49, 48, 45, 41, 35, 27, 19, 10, 0, -10, -19, -27, -35, -41, -45, -48, -49>>

NaN == -1

\* sp.arccos: the angle of the nearest tabulated cosine; nan outside [-1, 1]
Arccos(cos) ==
    IF cos > CosOne \/ cos < -CosOne THEN NaN
    ELSE LET Near(k) == \A j \in 1..17 : Abs(CosSixteenth[k] - cos) <= Abs(CosSixteenth[j] - cos)
             k == CHOOSE k \in 1..17 : Near(k) /\ \A j \in 1..(k - 1) : ~Near(j)
         IN  ((k - 1) * PiAngle) \div 16

\* constants.small_angle_cut_off
SmallAngleCutOff == 4

\* variant: the cut-off itself is inside
SmallAngle_Inclusive(self, d) ==
    /\ Abs(d.ra - self.ra) <= SmallAngleCutOff
    /\ Abs(d.dec - self.dec) <= SmallAngleCutOff

\* lines 106-107 / 127-128
SmallAngle(self, d) ==
    /\ Abs(d.ra - self.ra) < SmallAngleCutOff
    /\ Abs(d.dec - self.dec) < SmallAngleCutOff

\* the integer square root
Isqrt(n) == CHOOSE r \in 0..n : r * r <= n /\ n < (r + 1) * (r + 1)

\* lines 109-110 / 129-130: sqrt((dec - self.dec)**2 + (self.cos_dec*(ra - self.ra))**2)
FlatSky(self, d) ==
    RoundDiv(Isqrt(Comp * Comp * (d.dec - self.dec) * (d.dec - self.dec)
                   + (self.cos_dec * (d.ra - self.ra)) * (self.cos_dec * (d.ra - self.ra))),
             Comp)

\* the number of entries of a boolean sequence that are TRUE (w.sum())
CountTrue(w) == Cardinality({i \in 1..Len(w) : w[i]})

\* lines 88-110: data is a list; the arrays at each step and the messages
XorList(self, data) ==
    LET n     == Len(data)
        cos   == [i \in 1..n |-> Dot(self, data[i])]
        wh    == [i \in 1..n |-> IsHigh(cos[i])]
        cosh  == [i \in 1..n |-> IF wh[i] THEN CosOne ELSE cos[i]]
        wl    == [i \in 1..n |-> IsLow(cosh[i])]
        cosl  == [i \in 1..n |-> IF wl[i] THEN -CosOne ELSE cosh[i]]
        acos  == [i \in 1..n |-> Arccos(cosl[i])]
        w     == [i \in 1..n |-> SmallAngle(self, data[i])]
        angl  == [i \in 1..n |-> IF w[i] THEN FlatSky(self, data[i]) ELSE acos[i]]
        out   == (IF CountTrue(wh) /= 0 THEN <<[msg |-> "cos>=1.", n |-> CountTrue(wh)]>>
                  ELSE <<>>)
                 \o (IF CountTrue(wl) /= 0 THEN <<[msg |-> "cos<=-1.", n |-> CountTrue(wl)]>>
                     ELSE <<>>)
    IN  [cos |-> cos, clamped |-> cosl, acos |-> acos, angl |-> angl, out |-> out]

\* variant: the single-object case keeps the arccos value
XorOne_ArccosOnly(self, d) ==
    LET cos   == Dot(self, d)
        cosc  == IF IsHigh(cos) THEN CosOne ELSE IF IsLow(cos) THEN -CosOne ELSE cos
        acos  == Arccos(cosc)
        out   == IF IsHigh(cos) THEN <<[msg |-> "cosinus>=1.", n |-> 1]>>
                 ELSE IF IsLow(cos) THEN <<[msg |-> "cosinus<=-1.", n |-> 1]>>
                 ELSE <<>>
    IN  [cos |-> <<cos>>, clamped |-> <<cosc>>, acos |-> <<acos>>, angl |-> <<acos>>,
         out |-> out]

\* lines 112-130: data is one Qso; the result is given as a list of one entry
XorOne(self, d) ==
    LET cos   == Dot(self, d)
        cosc  == IF IsHigh(cos) THEN CosOne ELSE IF IsLow(cos) THEN -CosOne ELSE cos
        acos  == Arccos(cosc)
        angl  == IF SmallAngle(self, d) THEN FlatSky(self, d) ELSE acos
        out   == IF IsHigh(cos) THEN <<[msg |-> "cosinus>=1.", n |-> 1]>>
                 ELSE IF IsLow(cos) THEN <<[msg |-> "cosinus<=-1.", n |-> 1]>>
                 ELSE <<>>
    IN  [cos |-> <<cos>>, clamped |-> <<cosc>>, acos |-> <<acos>>, angl |-> <<angl>>,
         out |-> out]

\* reference objects: on the equator, at 45 degrees of ra and dec, and at a
\* declination whose cosine is rounded differently one unit further
XorSelf == {Qso(0, 0), Qso(Eighth, 0), Qso(Eighth, Eighth), Qso(0, Eighth \div 2)}

\* objects around a reference object: at the same place, up to the cut-off
\* away in either coordinate, an eighth of a turn away, and opposite
XorAround(self) ==
    {Qso(self.ra + dra, self.dec + ddec) :
        dra \in {0, 1, SmallAngleCutOff - 1, -SmallAngleCutOff, Eighth},
        ddec \in {0, 1, SmallAngleCutOff}}
    \cup {Qso(self.ra + 4 * Eighth, -self.dec)}

\* the sequences over S of length at most n
RECURSIVE SeqsUpTo(_, _)
SeqsUpTo(S, n) ==
    IF n = 0 THEN {<<>>}
    ELSE LET shorter == SeqsUpTo(S, n - 1)
         IN  shorter \cup {Append(q, x) : q \in {t \in shorter : Len(t) = n - 1}, x \in S}

XorArgs ==
    UNION {{[self |-> o, list |-> TRUE, data |-> l] : l \in SeqsUpTo(XorAround(o), MaxBatch)}
           \cup {[self |-> o, list |-> FALSE, data |-> <<d>>] : d \in XorAround(o)} :
           o \in XorSelf}

XorInit ==
    /\ kin \in XorArgs
    /\ kout = [stage |-> "args"]
    /\ NoRun(CfgAuto)

\* o1 ^ data with data a list (case 1)
XorListCall ==
    /\ kout.stage = "args"
    /\ kin.list
    /\ kout' = [stage |-> "returned", x |-> XorList(kin.self, kin.data)]
    /\ UNCHANGED <<kin, runVars>>

\* o1 ^ data with data one object (case 2)
XorOneCall ==
    /\ kout.stage = "args"
    /\ ~kin.list
    /\ kout' = [stage |-> "returned", x |-> XorOne(kin.self, kin.data[1])]
    /\ UNCHANGED <<kin, runVars>>

XorNext == XorListCall \/ XorOneCall

SpecXor == XorInit /\ [][XorNext]_vars


-----------------------------------------------------------------------------
(* Claims about Qso.__xor__, checked under SpecXor *)

XReturned == kout.stage = "returned"

\* the messages of the call about cosines >= 1, and about cosines <= -1
HighMessages == {j \in 1..Len(kout.x.out) : kout.x.out[j].msg \in {"cos>=1.", "cosinus>=1."}}

LowMessages == {j \in 1..Len(kout.x.out) : kout.x.out[j].msg \in {"cos<=-1.", "cosinus<=-1."}}

\* C18: every cosine >= 1 is set to 1 and every cosine <= -1 to -1 before the
\* arccos, every separation returned lies in [0, pi], and the call prints one
\* message per clamp direction that occurs, whatever the number of entries.
C18_ClampedOnce ==
    XReturned =>
        /\ \A i \in 1..Len(kin.data) :
              /\ kout.x.clamped[i] =
                    (IF kout.x.cos[i] >= CosOne THEN CosOne
                     ELSE IF kout.x.cos[i] <= -CosOne THEN -CosOne
                     ELSE kout.x.cos[i])
              /\ 0 <= kout.x.angl[i] /\ kout.x.angl[i] <= PiAngle
        /\ Cardinality(HighMessages) =
              (IF \E i \in 1..Len(kin.data) : kout.x.cos[i] >= CosOne THEN 1 ELSE 0)
        /\ Cardinality(LowMessages) =
              (IF \E i \in 1..Len(kin.data) : kout.x.cos[i] <= -CosOne THEN 1 ELSE 0)
        /\ Len(kout.x.out) = Cardinality(HighMessages) + Cardinality(LowMessages)

\* a list of two objects, one with a cosine above 1 twice over and one with a
\* cosine below -1
C18_Witness ==
    /\ XReturned
    /\ kin.list
    /\ Len(kin.data) = 2
    /\ kout.x.cos[1] > CosOne
    /\ kout.x.cos[2] < -CosOne
    /\ kout.x.angl = <<0, PiAngle>>
    /\ Len(kout.x.out) = 2

\* a list whose two cosines are both above 1, and one message
C18_WitnessBatch ==
    /\ XReturned
    /\ kin.list
    /\ Len(kin.data) = 2
    /\ kout.x.cos[1] > CosOne /\ kout.x.cos[2] > CosOne
    /\ Len(kout.x.out) = 1


\* C19: the flat-sky value replaces the arccos value of a candidate if and
\* only if both |ra - self.ra| and |dec - self.dec| are strictly below the
\* cut-off; otherwise the candidate keeps its arccos value.
C19_FlatSkyInsideOnly ==
    XReturned =>
        \A i \in 1..Len(kin.data) :
            LET dra  == kin.data[i].ra - kin.self.ra
                ddec == kin.data[i].dec - kin.self.dec
            IN  IF -SmallAngleCutOff < dra /\ dra < SmallAngleCutOff
                   /\ -SmallAngleCutOff < ddec /\ ddec < SmallAngleCutOff
                THEN kout.x.angl[i] = FlatSky(kin.self, kin.data[i])
                ELSE kout.x.angl[i] = kout.x.acos[i]

\* a list with one object inside the cut-off in both coordinates and one
\* exactly at the cut-off in ra, the two formulas giving different values
C19_Witness ==
    /\ XReturned
    /\ kin.list
    /\ Len(kin.data) = 2
    /\ Abs(kin.data[1].ra - kin.self.ra) = 1 /\ Abs(kin.data[1].dec - kin.self.dec) = 1
    /\ Abs(kin.data[2].ra - kin.self.ra) = SmallAngleCutOff /\ kin.data[2].dec = kin.self.dec
    /\ \A i \in 1..2 : FlatSky(kin.self, kin.data[i]) /= kout.x.acos[i]
    /\ kout.x.angl[1] = FlatSky(kin.self, kin.data[1])
    /\ kout.x.angl[2] = kout.x.acos[2]


-----------------------------------------------------------------------------
(* The progress counter and the objects done, checked under Spec *)

\* the number of objects the workers 1..w have finished: passed over as empty,
\* or binned and added to the accumulators
RECURSIVE Finished(_)
Finished(w) == IF w = 0 THEN 0 ELSE Finished(w - 1) + (pos[w] - 1)

\* C21: the counter is incremented for an object only after that object is
\* finished, so it never exceeds the number of finished objects.
C21_CounterAfterObject == counter <= Finished(NWorkers)


-----------------------------------------------------------------------------
(* A pair one sixteenth of a length unit inside rp_max *)

\* a quasar at r_comov 210 and a second tracer on the same line of sight, one
\* sixteenth of a length unit inside rp_max or well inside it
EdgeObjects ==
    {<<[Q(1, 1, 2, 210, 1, w1) EXCEPT !.r_comov = 3360],
       [Q(2, 1, 2, 10, 1, 1) EXCEPT !.r_comov = r2]>> :
        w1 \in 1..2, r2 \in {161, 160, 480}}

EdgeScenes ==
    {[O |-> O, A |-> A, B |-> {2}] : O \in EdgeObjects, A \in {{1}}}

\* the ranges of the end-to-end scenario on a grid of two by two bins
CfgEdge ==
    [CfgWide EXCEPT !.npb = 2, !.ntb = 2]

EdgeRuns ==
    {[c |-> CfgEdge, s |-> s] : s \in EdgeScenes}

EdgeInit == \E run \in EdgeRuns : \E g \in Groupings(NCells(run)) : Start(run, g)

SpecEdge == EdgeInit /\ [][Next]_vars

\* the lock is held only between its acquisition and the end of the with block
LockDiscipline ==
    /\ lock \in Workers \cup {NoOwner}
    /\ \A w \in Workers : lock = w <=> pc[w] \in {"read", "write", "unlock"}

\* the positions of co and of its caller at which worker w has a next step
\* whatever the other workers do
Running(w) ==
    pc[w] \in {"fill", "start", "read", "write", "unlock", "bin", "norm"}

\* worker w can take a step, or waits for the lock while its holder can
CanProceed(w) ==
    \/ Running(w)
    \/ /\ pc[w] = "lock"
       /\ \/ LockIsFree(lock)
          \/ lock \in Workers \ {w} /\ Running(lock)

\* C22: there is no deadlock and every worker eventually returns its partial
\* grid: the lock is held only for one increment of the counter, and a worker
\* that has not returned yet can always proceed (or waits for a lock whose
\* holder can).
C22_EveryWorkerReturns ==
    /\ LockDiscipline
    /\ \A w \in Workers : pc[w] /= "done" => CanProceed(w)

-----------------------------------------------------------------------------
(* The accumulators of co before normalisation *)

\* the neighbours of o1: the candidates of the queried cells with another
\* thingid, closer than angmax and inside the redshift window
Accepted(o1) ==
    SortedSeq({o2 \in Queried(o1) :
                  /\ obj[o2].thingid /= obj[o1].thingid
                  /\ Sep(o1, o2) < cfg.angmax
                  /\ InWindow(o1, o2)})

\* the quantities of the ordered pair (o1, o2)
PairOf(o1, o2) ==
    LET rp  == PairRp(cfg, obj[o1].r_comov, obj[o2].r_comov, Sep(o1, o2))
        rt  == PairRt(obj[o1].rdm_comov, obj[o2].rdm_comov, Sep(o1, o2))
        w12 == obj[o1].we * obj[o2].we
    IN  [rp |-> rp, rt |-> rt, z |-> obj[o1].z_qso + obj[o2].z_qso, w12 |-> w12,
         sel |-> Mask(cfg, rp, rt, w12),
         bin |-> FlatBin(cfg, BinParallel(cfg, rp), BinTransverse(cfg, rt))]

\* the contribution of the pair to bin b, by field
Share(f, p, b) ==
    IF ~p.sel \/ p.bin /= b THEN 0
    ELSE IF f = "we" THEN p.w12
    ELSE IF f = "rp" THEN p.rp * p.w12
    ELSE IF f = "rt" THEN p.rt * p.w12
    ELSE IF f = "z" THEN p.z * p.w12
    ELSE 1

\* the ordered pairs of the first n objects of worker w
RECURSIVE PairsOfFirst(_, _)
PairsOfFirst(w, n) ==
    IF n = 0 THEN <<>>
    ELSE LET o1 == ObjList(w)[n]
             l  == Accepted(o1)
         IN  PairsOfFirst(w, n - 1) \o [i \in 1..Len(l) |-> PairOf(o1, l[i])]

\* the sum of the contributions of the pairs ps to bin b
PairSum(f, ps, b) == SumSeq([i \in 1..Len(ps) |-> Share(f, ps[i], b)])

InLoop(w) == pc[w] \in {"lock", "read", "write", "unlock", "bin", "norm"}

\* C23: before normalisation every flat bin of the accumulators of co holds,
\* in each of the five arrays, the sum over the selected pairs (o1 already
\* binned, o2 in its neighbour list) whose flat bin it is: w12, w12*rp, w12*rt,
\* w12*z and the number of pairs; a pair adds to its bin and to no other.
C23_SumsPerBin ==
    \A w \in Workers :
        InLoop(w) =>
            LET ps == PairsOfFirst(w, pos[w] - 1)
            IN  \A f \in {"we", "rp", "rt", "z", "nb"} :
                    \A b \in 0..(cfg.npb * cfg.ntb - 1) :
                        acc[w][f][b] = PairSum(f, ps, b)

\* a worker is about to normalise a grid with two pairs in one bin and a pair
\* in another
C23_Witness ==
    \E w \in Workers :
        /\ pc[w] = "norm"
        /\ \E b, d \in DOMAIN acc[w].nb :
              b /= d /\ acc[w].nb[b] >= 2 /\ acc[w].nb[d] >= 1

-----------------------------------------------------------------------------
(* fitter2: chi2.chi2scan *)

\* the longest grid of a scanned parameter
MaxGrid == 2

\* a data set: its name and its three dictionaries; par_error and par_fixed
\* are keyed here by the parameter name (the code prefixes error_ and fix_)
DataSet(n, init, error, fixed) ==
    [name |-> n, pars_init |-> init, par_error |-> error, par_fixed |-> fixed]

\* the data sets of a fit: the first has every parameter, the second no "at"
ScanData ==
    {<<DataSet("d1", [p \in {"ap", "at", "bias"} |-> v],
               [p \in {"ap", "at", "bias"} |-> 3], [p \in {"ap", "at"} |-> fx])>> :
        v \in 5..6, fx \in BOOLEAN}
    \cup
    {<<DataSet("d1", [p \in {"ap", "at", "bias"} |-> 5],
               [p \in {"ap", "at", "bias"} |-> 3], [p \in {"ap", "at"} |-> FALSE]),
       DataSet("d2", [p \in {"ap", "bias"} |-> v], [p \in {"ap"} |-> 4],
               [p \in {"ap"} |-> fx])>> :
        v \in 5..6, fx \in BOOLEAN}

\* dic_chi2scan: the scanned parameters in the order of the keys, each with
\* its grid
ScanDics ==
    {<<[par |-> "ap", grid |-> [k \in 1..n |-> k]]>> : n \in 1..MaxGrid}
    \cup {<<[par |-> "ap", grid |-> [k \in 1..n |-> k]],
            [par |-> "at", grid |-> [k \in 1..m |-> 10 + k]]>> :
            n \in 1..MaxGrid, m \in 1..MaxGrid}

\* self at the call: has is hasattr(self, "dic_chi2scan"); values and errors
\* are those of self.best_fit
ScanArgs ==
    {[has |-> h, dic |-> dic, data |-> ds,
      values |-> [p \in {"ap", "at", "bias"} |-> 7],
      errors |-> [p \in {"ap", "at", "bias"} |-> 2]] :
        h \in BOOLEAN, dic \in ScanDics, ds \in ScanData}

\* lines 108-119: what is stored for a data set
Stored(d) == [init |-> d.pars_init, error |-> d.par_error, fixed |-> d.par_fixed]

\* store_data_pars[d.name] = ..., in the order of self.data
StoreAll(ds) ==
    [n \in {ds[i].name : i \in 1..Len(ds)} |->
        Stored(ds[SetMax({i \in 1..Len(ds) : ds[i].name = n})])]

\* lines 113 and 116: the data set at the best fit
AtBestFit(d, values, errors) ==
    [d EXCEPT !.pars_init = [p \in DOMAIN d.pars_init |-> values[p]],
              !.par_error = [p \in DOMAIN d.par_error |-> errors[p]]]

ScanKeys(dic) == {dic[j].par : j \in 1..Len(dic)}

\* lines 122-127: the scanned parameters get error 0 and are fixed
Frozen(d, dic) ==
    [d EXCEPT !.par_error = [p \in DOMAIN d.par_error |->
                                IF p \in ScanKeys(dic) THEN 0 ELSE d.par_error[p]],
              !.par_fixed = [p \in DOMAIN d.par_fixed |->
                                IF p \in ScanKeys(dic) THEN TRUE ELSE d.par_fixed[p]]]

\* lines 144-146 and 151-155: the grid points in the order of the loops, each
\* a list of one step per scanned parameter
GridPoints(dic) ==
    IF Len(dic) = 1 THEN [k \in 1..Len(dic[1].grid) |-> <<dic[1].grid[k]>>]
    ELSE IF Len(dic) = 2
    THEN [k \in 1..(Len(dic[1].grid) * Len(dic[2].grid)) |->
             <<dic[1].grid[((k - 1) \div Len(dic[2].grid)) + 1],
               dic[2].grid[((k - 1) % Len(dic[2].grid)) + 1]>>]
    ELSE <<>>

\* lines 147-149 and 156-160: the steps are written into pars_init
AtPoint(d, dic, pt) ==
    [d EXCEPT !.pars_init =
        [p \in DOMAIN d.pars_init |->
            IF \E j \in 1..Len(dic) : dic[j].par = p
            THEN pt[CHOOSE j \in 1..Len(dic) : dic[j].par = p]
            ELSE d.pars_init[p]]]

\* lines 59-60: the start values handed to the minimiser, later data sets
\* overriding earlier ones
StartValues(ds) ==
    [p \in UNION {DOMAIN ds[i].pars_init : i \in 1..Len(ds)} |->
        ds[SetMax({i \in 1..Len(ds) : p \in DOMAIN ds[i].pars_init})].pars_init[p]]

\* lines 168-177: the three dictionaries are written back from the store
Restored(d, store) ==
    [d EXCEPT !.pars_init = [p \in DOMAIN d.pars_init |-> store[d.name].init[p]],
              !.par_error = [p \in DOMAIN d.par_error |-> store[d.name].error[p]],
              !.par_fixed = [p \in DOMAIN d.par_fixed |-> store[d.name].fixed[p]]]

ScanInit ==
    /\ kin \in ScanArgs
    /\ kout = [stage |-> "called", data |-> kin.data, store |-> <<>>,
               result |-> <<>>, i |-> 0, failed |-> {}]
    /\ NoRun(CfgAuto)

\* line 101: nothing to scan
ScanSkip ==
    /\ kout.stage = "called"
    /\ ~kin.has
    /\ kout' = [kout EXCEPT !.stage = "returned"]
    /\ UNCHANGED <<kin, runVars>>

\* lines 103-127: the state is stored, the data sets go to the best fit and
\* the scanned parameters are frozen
ScanStore ==
    /\ kout.stage = "called"
    /\ kin.has
    /\ kout' = [kout EXCEPT
                   !.stage = "scan",
                   !.store = StoreAll(kout.data),
                   !.data = [i \in 1..Len(kout.data) |->
                                Frozen(AtBestFit(kout.data[i], kin.values, kin.errors),
                                       kin.dic)]]
    /\ UNCHANGED <<kin, runVars>>

\* lines 130-140, send_one_fit after self._minimize() returned with fval
FitReturns(data, fval) ==
    [raised |-> FALSE, row |-> [values |-> StartValues(data), fval |-> fval]]

\* lines 130-140, send_one_fit after self._minimize() raised: chi2_result is
\* nan and best_fit is unbound, so sorted(best_fit.values) raises
FitRaises(data) ==
    [raised |-> TRUE, row |-> [values |-> <<>>, fval |-> NaN]]

\* one pass of the loop of lines 146-150 or 154-161
ScanFit ==
    /\ kout.stage = "scan"
    /\ kout.i < Len(GridPoints(kin.dic))
    /\ \E ok \in BOOLEAN :
        LET k    == kout.i + 1
            data == [j \in 1..Len(kout.data) |->
                        AtPoint(kout.data[j], kin.dic, GridPoints(kin.dic)[k])]
            fit  == IF ok THEN FitReturns(data, 9) ELSE FitRaises(data)
        IN  kout' = [kout EXCEPT
                        !.data = data,
                        !.i = k,
                        !.failed = IF ok THEN @ ELSE @ \cup {k},
                        !.stage = IF fit.raised THEN "raised" ELSE "scan",
                        !.result = IF fit.raised THEN @ ELSE Append(@, fit.row)]
    /\ UNCHANGED <<kin, runVars>>

\* lines 163-177: the table is kept and the data sets are restored
ScanRestore ==
    /\ kout.stage = "scan"
    /\ kout.i = Len(GridPoints(kin.dic))
    /\ kout' = [kout EXCEPT
                   !.stage = "returned",
                   !.data = [j \in 1..Len(kout.data) |->
                                Restored(kout.data[j], kout.store)]]
    /\ UNCHANGED <<kin, runVars>>

ScanNext == ScanSkip \/ ScanStore \/ ScanFit \/ ScanRestore

SpecScan == ScanInit /\ [][ScanNext]_vars

-----------------------------------------------------------------------------
(* Claims about chi2scan, checked under SpecScan *)

ScanLeft == kout.stage \in {"returned", "raised"}

\* C24: chi2scan leaves pars_init, par_error and par_fixed of every data set
\* as they were before the call, whatever happens in the fits of the scan.
C24_ScanRestores == ScanLeft => kout.data = kin.data

\* C25: a grid point whose minimisation raises is recorded with chi2 value
\* NaN and the scan goes on, so that the table has one row per grid point.
C25_FailedFitIsNaN ==
    /\ kout.stage /= "called" =>
          /\ Len(kout.result) = kout.i
          /\ \A k \in kout.failed : kout.result[k].fval = NaN
    /\ ScanLeft /\ kin.has => Len(kout.result) = Len(GridPoints(kin.dic))

-----------------------------------------------------------------------------
(* co and fill_neighs called in any order by the caller *)

\* the increments of the counter after which the caller stops calling
MaxCount == 4

\* object 1 is outside the redshift window, objects 2 and 3 are neighbours
AgainObjects ==
    {<<Q(1, 0, 4, 10, 3, 1), Q(2, 1, 2, 12, 3, w2), Q(3, 2, 2, 11, 6, 1)>> :
        w2 \in 1..2}

AgainRuns ==
    {[c |-> CfgAuto, s |-> [O |-> O, A |-> 1..3, B |-> {}]] : O \in AgainObjects}

AgainInit == \E run \in AgainRuns : \E g \in Groupings(NCells(run)) : Start(run, g)

\* co(pix) is called on a chunk that fill_neighs has not run on
CoUnfilled(w) ==
    /\ pc[w] = "fill"
    /\ pc' = [pc EXCEPT ![w] = "start"]
    /\ UNCHANGED <<cfg, obj, objs, objs2, neighs, pix, pos, acc, ret, counter, lock,
                   tmp, merged, mergedFrom, kin, kout>>

\* co(pix) is called again on the chunk it returned from
CoAgain(w) ==
    /\ pc[w] = "done"
    /\ counter < MaxCount
    /\ pc' = [pc EXCEPT ![w] = "start"]
    /\ UNCHANGED <<cfg, obj, objs, objs2, neighs, pix, pos, acc, ret, counter, lock,
                   tmp, merged, mergedFrom, kin, kout>>

\* the caller goes back to fill_neighs(pix) after co returned
FillAgain(w) ==
    /\ pc[w] = "done"
    /\ counter < MaxCount
    /\ pc' = [pc EXCEPT ![w] = "fill"]
    /\ UNCHANGED <<cfg, obj, objs, objs2, neighs, pix, pos, acc, ret, counter, lock,
                   tmp, merged, mergedFrom, kin, kout>>

AgainNext ==
    \/ Next
    \/ \E w \in Workers : CoUnfilled(w) \/ CoAgain(w) \/ FillAgain(w)

SpecAgain == AgainInit /\ [][AgainNext]_vars

\* the objects co has passed in its current call
Passed(w) == {ObjList(w)[k] : k \in 1..(pos[w] - 1)}

\* C26: co needs fill_neighs on every object of the chunk since the last co:
\* an object that co has binned is left with the list None, an object whose
\* list is None or was never filled makes co raise (it is neither skipped nor
\* binned), and a second co without refilling raises at the first object that
\* had neighbours, after passing the objects whose list is empty.
C26_CoNeedsFill ==
    /\ [](\A w \in Workers :
            /\ InLoop(w) \/ pc[w] \in {"done", "raised"} =>
                  \A o \in Passed(w) :
                      neighs[o] = IF Accepted(o) = <<>> THEN List(<<>>) ELSE None
            /\ pc[w] = "raised" =>
                  /\ neighs[Cur(w)].st /= "list"
                  /\ neighs[Cur(w)].st = "None" => Accepted(Cur(w)) /= <<>>)
    /\ [][\A w \in Workers :
            (pc[w] = "unlock" /\ neighs[Cur(w)].st /= "list" /\ pc'[w] /= "unlock")
                => pc'[w] = "raised"]_vars

\* a second co has passed an object with an empty list and raised at the next,
\* whose list the first co had set to None
C26_Witness ==
    \E w \in Workers :
        /\ pc[w] = "raised"
        /\ pos[w] > 1
        /\ neighs[Cur(w)].st = "None"

-----------------------------------------------------------------------------
(* The grids co returns, checked under Spec *)

\* C27: in every grid returned by co a bin has a raw count > 0 if and only if
\* its weight sum is > 0, and every bin that received a pair is returned
\* normalised: its rp, rt and z are the sums divided by the weight sum.
C27_CountIffWeight ==
    /\ [](\A w \in Workers :
            pc[w] = "done" =>
                \A b \in DOMAIN ret[w].nb : ret[w].nb[b] > 0 <=> ret[w].we[b] > 0)
    /\ [][\A w \in Workers :
            Returns(w) =>
                \A b \in DOMAIN acc[w].nb :
                    acc[w].nb[b] > 0 =>
                        /\ acc[w].we[b] > 0
                        /\ ret'[w].rp[b] = Frac(acc[w].rp[b], acc[w].we[b])
                        /\ ret'[w].rt[b] = Frac(acc[w].rt[b], acc[w].we[b])
                        /\ ret'[w].z[b] = Frac(acc[w].z[b], acc[w].we[b])]_vars

\* a worker whose chunk holds the weightless object 3, inside the redshift
\* window, has returned a grid with a filled bin and an empty bin
C27_Witness ==
    \E w \in Workers :
        /\ pc[w] = "done"
        /\ obj[3].we = 0 /\ obj[3].z_qso = 2
        /\ \E k \in 1..Len(ObjList(w)) : ObjList(w)[k] = 3
        /\ \E b, d \in DOMAIN ret[w].nb : ret[w].nb[b] > 0 /\ ret[w].nb[d] = 0

-----------------------------------------------------------------------------
(* The two orderings of a pair: a same-catalog run, or one call of __xor__ *)

SameRuns == {r \in Runs : ~r.c.x_correlation}

SameInit ==
    \/ \E run \in SameRuns : \E g \in Groupings(NCells(run)) : Start(run, g)
    \/ XorInit

InRun == pc[1] /= "idle"

SameNext ==
    \/ InRun /\ Next
    \/ ~InRun /\ XorNext

SpecSame == SameInit /\ [][SameNext]_vars

\* the unordered pairs of the catalog that are accepted, selected and in bin b
PairsIn(b) ==
    {p \in SUBSET Members(objs) :
        \E o1, o2 \in p :
            /\ p = {o1, o2} /\ o1 < o2
            /\ InList(o2, Accepted(o1))
            /\ PairOf(o1, o2).sel /\ PairOf(o1, o2).bin = b}

\* in a same-catalog run the lists are symmetric, both orderings of a pair
\* get the same bin and weight, and every bin counts each pair twice
RunSymmetric ==
    /\ \A o1, o2 \in Members(objs) :
          /\ (Filled(o1) /\ Filled(o2)) =>
                (InList(o2, neighs[o1].l) <=> InList(o1, neighs[o2].l))
          /\ InList(o2, Accepted(o1)) =>
                /\ PairOf(o1, o2).sel = PairOf(o2, o1).sel
                /\ PairOf(o1, o2).bin = PairOf(o2, o1).bin
                /\ PairOf(o1, o2).w12 = PairOf(o2, o1).w12
    /\ AllDone =>
          \A b \in DOMAIN ret[1].nb :
              /\ IntTotal("nb", b, NWorkers) = 2 * Cardinality(PairsIn(b))
              /\ IntTotal("nb", b, NWorkers) % 2 = 0

\* the separation of d seen from self, as fill_neighs computes it
SepFrom(self, d) == XorList(self, <<d>>).angl[1]

InsideCutOff(self, d) ==
    /\ Abs(d.ra - self.ra) < SmallAngleCutOff
    /\ Abs(d.dec - self.dec) < SmallAngleCutOff

-----------------------------------------------------------------------------
(* The two forms of Qso.__xor__, checked under SpecXor *)

\* the fields of a result that do not depend on the wording of the messages
XorValues(x) ==
    [cos |-> x.cos, clamped |-> x.clamped, acos |-> x.acos, angl |-> x.angl,
     messages |-> Len(x.out)]

\* C29: the separation operator gives the same value for a single object as
\* for a one-element list holding it: the same clamped cosine, the same
\* flat-sky replacement and the same separation, for every reference and
\* candidate.
C29_SingleEqualsList ==
    (XReturned /\ Len(kin.data) = 1) =>
        /\ XorValues(kout.x) = XorValues(XorList(kin.self, kin.data))
        /\ XorValues(kout.x) = XorValues(XorOne(kin.self, kin.data[1]))

\* a single object inside the cut-off, whose flat-sky value differs from its
\* arccos value
C29_Witness ==
    /\ XReturned
    /\ ~kin.list
    /\ InsideCutOff(kin.self, kin.data[1])
    /\ kout.x.angl[1] /= kout.x.acos[1]
    /\ kout.x.angl = XorList(kin.self, kin.data).angl

(***************************************************************************)
(* data.Forest: the per-pixel arrays                                       *)
(*                                                                         *)
(* Wavelengths are counted in pixels of the common grid: log_lambda is the *)
(* ascending list of the grid bins the forest has, and every other         *)
(* per-pixel array is written as the list of the bins its elements were    *)
(* computed for, so that its length and its alignment are both visible.    *)
(***************************************************************************)
MaxPix == 3
MaxCalls == 3

GridBins == 0..(MaxPix - 1)

\* a numpy array
Array(l) == [st |-> "array", l |-> l]

\* ps, lines 413, 449 and 463
ps == <<"iv", "log_lambda", "fl", "T_dla", "Fbar", "mmef", "diff", "reso">>

\* Forest.__init__ after rebinning (lines 258-345): bins is the set of grid
\* bins with positive inverse variance, given the optional arrays named in
\* opt, z the shift log10(1 + z_qso) in pixels.  With no pixel left (lines
\* 276-277 and 308-309) the object gets no per-pixel attribute at all.
Forest(bins, opt, z) ==
    LET a == Array(SortedSeq(bins))
    IN  [has |-> bins /= {}, z_qso |-> z,
         iv |-> IF bins = {} THEN None ELSE a,
         log_lambda |-> IF bins = {} THEN None ELSE a,
         fl |-> IF bins = {} THEN None ELSE a,
         T_dla |-> None, Fbar |-> None,
         mmef |-> IF bins /= {} /\ "mmef" \in opt THEN a ELSE None,
         diff |-> IF bins /= {} /\ "diff" \in opt THEN a ELSE None,
         reso |-> IF bins /= {} /\ "reso" \in opt THEN a ELSE None]

\* a[w] for a boolean array w of the length of a
RECURSIVE Compress(_, _)
Compress(l, w) ==
    IF l = <<>> THEN <<>>
    ELSE (IF Head(w) THEN <<Head(l)>> ELSE <<>>) \o Compress(Tail(l), Tail(w))

\* what a method leaves behind: the object, and whether it raised
Left(f, raised) == [f |-> f, raised |-> raised]

\* lines 413-416, 449-452 and 463-466: every array of ps that is not None is
\* replaced by its selection, in the order of ps; a boolean index of another
\* length than the array raises IndexError, the arrays before it already cut
RECURSIVE CutFrom(_, _, _)
CutFrom(f, w, k) ==
    IF k > Len(ps) THEN Left(f, FALSE)
    ELSE IF f[ps[k]] = None THEN CutFrom(f, w, k + 1)
    ELSE IF Len(f[ps[k]].l) /= Len(w) THEN Left(f, TRUE)
    ELSE CutFrom([f EXCEPT ![ps[k]] = Array(Compress(f[ps[k]].l, w))], w, k + 1)

\* a list of intervals of wavelengths <<l[0], l[1]>>, in pixels: none or one
MaskLists == {{}} \cup {{l} : l \in {i \in GridBins \X GridBins : i[1] <= i[2]}}

\* lines 408-412: True outside every interval of mask_obs and, in the rest
\* frame, outside every interval of mask_RF (both comparisons are strict)
MaskSelection(f, mask_obs, mask_RF) ==
    [i \in 1..Len(f.log_lambda.l) |->
        /\ \A l \in mask_obs :
              f.log_lambda.l[i] < l[1] \/ f.log_lambda.l[i] > l[2]
        /\ \A l \in mask_RF :
              f.log_lambda.l[i] - f.z_qso < l[1] \/ f.log_lambda.l[i] - f.z_qso > l[2]]

\* Forest.mask, lines 404-419
mask(f, mask_obs, mask_RF) ==
    IF ~f.has THEN Left(f, FALSE)
    ELSE CutFrom(f, MaskSelection(f, mask_obs, mask_RF), 1)

\* Forest.add_optical_depth, lines 421-434: Fbar starts as ones of the size
\* of log_lambda (lines 427-428); line 432 indexes Fbar by a boolean array of
\* the size of log_lambda, IndexError if Fbar has another size.  The values
\* are not followed, so tau, gamma and waveRF have no part here.
add_optical_depth(f) ==
    IF ~f.has THEN Left(f, FALSE)
    ELSE LET g == IF f.Fbar = None THEN [f EXCEPT !.Fbar = f.log_lambda] ELSE f
         IN  Left(g, Len(g.Fbar.l) /= Len(g.log_lambda.l))

\* dla(self, zabs, nhi).t: the transmission of the absorber, one value per
\* element of log_lambda
DlaT(f) == f.log_lambda

\* Forest.add_dla, lines 436-454.  T_dla starts as ones of the size of
\* log_lambda (439-440) and is multiplied in place by the transmission (442);
\* low is the set of bins where the product is at or below dla_mask_limit
\* (444), mask the intervals around the absorber (445-447), zabs the shift
\* log10(1 + zabs) in pixels.  An in-place product or conjunction of arrays
\* of lengths n and m broadcasts the second to the first when m = 1 and
\* raises ValueError for any other two different lengths.
add_dla(f, zabs, low, dlaMask) ==
    IF ~f.has THEN Left(f, FALSE)
    ELSE LET g == IF f.T_dla = None THEN [f EXCEPT !.T_dla = f.log_lambda] ELSE f
             n == Len(g.T_dla.l)
             m == Len(DlaT(g).l)
             at(i) == g.log_lambda.l[IF m = n THEN i ELSE 1] - zabs
             w == [i \in 1..n |->
                     /\ g.T_dla.l[i] \notin low
                     /\ \A l \in dlaMask : at(i) < l[1] \/ at(i) > l[2]]
         IN  IF n /= m /\ m /= 1 THEN Left(g, TRUE)
             ELSE CutFrom(g, w, 1)

\* Forest.add_absorber, lines 456-468: the pixels farther than
\* absorber_mask_width (a class attribute the caller sets, here in pixels)
\* from the absorber are kept
add_absorber(f, lambda_absorber, absorber_mask_width) ==
    IF ~f.has THEN Left(f, FALSE)
    ELSE CutFrom(f, [i \in 1..Len(f.log_lambda.l) |->
                        Abs(f.log_lambda.l[i] - lambda_absorber)
                            > absorber_mask_width], 1)

\* the quantities coadded with inverse-variance weighting, in the order they
\* enter dic (lines 367, 370-375)
Coadded == <<"fl", "mmef", "diff", "reso">>

\* lines 384-388 for the entries of dic from the k-th on: the entry is the
\* two arrays appended (a missing array of d appends the single value None)
\* and must have the length of the appended iv to be weighted by it; the
\* result is one value per bin of the coadded grid
RECURSIVE CoaddFrom(_, _, _, _, _)
CoaddFrom(f, self, d, grid, k) ==
    IF k > Len(Coadded) THEN Left(f, FALSE)
    ELSE LET p == Coadded[k]
         IN  IF self[p] = None THEN CoaddFrom(f, self, d, grid, k + 1)
             ELSE IF \/ d[p] = None
                     \/ Len(self[p].l) + Len(d[p].l) /= Len(self.iv.l) + Len(d.iv.l)
                  THEN Left(f, TRUE)
             ELSE CoaddFrom([f EXCEPT ![p] = grid], self, d, grid, k + 1)

\* Forest.__add__, lines 360-402: log_lambda and iv become the bins that
\* either forest has (lines 377-382, every iv being positive), the entries of
\* dic are rebinned to them, and no other attribute is assigned
Forest_add(self, d) ==
    IF ~self.has \/ ~d.has THEN Left(self, FALSE)
    ELSE LET BinsOf(a) == {a.l[i] : i \in 1..Len(a.l)}
             grid == Array(SortedSeq(BinsOf(self.log_lambda) \cup BinsOf(d.log_lambda)))
         IN  CoaddFrom([self EXCEPT !.log_lambda = grid, !.iv = grid],
                       self, d, grid, 1)

\* the forests a reader builds, with or without the optional arrays
Forests ==
    {Forest(b, opt, 1) :
        b \in SUBSET GridBins,
        opt \in {{}, {"mmef"}, {"diff", "reso"}, {"mmef", "diff", "reso"}}}

\* a forest that has pixels, as built by Forest.__init__
ForestInit ==
    /\ kin \in {f \in Forests : f.has}
    /\ kout = [stage |-> "built", f |-> kin, n |-> 0]
    /\ NoRun(CfgAuto)

\* the forest after a call: one more call made, left where it raised
AfterCall(r) ==
    /\ kout.stage \in {"built", "returned"}
    /\ kout.n < MaxCalls
    /\ kout' = [stage |-> IF r.raised THEN "raised" ELSE "returned",
                f |-> r.f, n |-> kout.n + 1]
    /\ UNCHANGED <<kin, runVars>>

CallMask ==
    \E mask_obs \in MaskLists, mask_RF \in MaskLists :
        AfterCall(mask(kout.f, mask_obs, mask_RF))

CallAddOpticalDepth == AfterCall(add_optical_depth(kout.f))

CallAddDla ==
    \E zabs \in 0..1, low \in SUBSET GridBins, dlaMask \in MaskLists :
        AfterCall(add_dla(kout.f, zabs, low, dlaMask))

CallAddAbsorber ==
    \E lambda_absorber \in GridBins, absorber_mask_width \in 0..1 :
        AfterCall(add_absorber(kout.f, lambda_absorber, absorber_mask_width))

CallAdd == \E d \in Forests : AfterCall(Forest_add(kout.f, d))

ForestNext ==
    \/ CallMask
    \/ CallAddOpticalDepth
    \/ CallAddDla
    \/ CallAddAbsorber
    \/ CallAdd

SpecForest == ForestInit /\ [][ForestNext]_vars

\* the lengths of the per-pixel arrays that are not None
Lengths(f) == {Len(f[ps[k]].l) : k \in {j \in 1..Len(ps) : f[ps[j]] /= None}}

\* C30: after any sequence of calls of mask, add_optical_depth, add_dla,
\* add_absorber and __add__ that all returned, the per-pixel arrays of a
\* forest with pixels that are not None have one and the same length.
C30_SameLength ==
    kout.stage \in {"built", "returned"} => Cardinality(Lengths(kout.f)) <= 1

====
